---- MODULE Spec2Model ----
(***************************************************************************)
(* A model of pgarchive, a reader of PostgreSQL custom-format dumps.       *)
(*                                                                         *)
(* Bytes are the integers 0..255.  A stream is a sequence of bytes with a  *)
(* cursor.  Rust's i64 and u64 are held as words: tuples of 8 bytes,       *)
(* least significant first (two's complement for i64), so that shifts,     *)
(* additions and negations keep their 64-bit width.                        *)
(***************************************************************************)
EXTENDS Integers, Sequences, FiniteSets, TLC

VARIABLES
    overflow_checks,  \* the build: TRUE = overflow checks on (dev/test profile)
    data,             \* the bytes of the stream (or file) being read
    pos,              \* the stream's cursor: number of bytes consumed
    cfg,              \* ReadConfig: [int_size, offset_size]
    pc,               \* position of the running operation
    op,               \* name of the primitive last called (codec harness)
    ret,              \* its result
    given,            \* what the stream was built from (never read by the code)
    num_entries,      \* read_toc: the decoded entry count
    entries,          \* read_toc: the entries decoded so far
    entry,            \* TocEntry::parse: the fields decoded so far
    trace,            \* the fields consumed so far, each with its start position
    outcome,          \* the outcome of the operation once pc = "done"
    hdr,              \* Archive::parse: the locals decoded so far
    reader,           \* DataReader: [int_size, limit, eof]
    out,              \* the bytes the DataReader has returned so far
    last,             \* the result of the latest DataReader::read
    cursors,          \* the cursor of each open file handle of the caller
    seeks,            \* the number of seeks made on each handle
    readers,          \* the readers Archive::read_data has returned
    opened,           \* the calls of Archive::read_data and their results
    found             \* the latest call of find_toc_entry and its result

vars == <<overflow_checks, data, pos, cfg, pc, op, ret, given, num_entries,
          entries, entry, trace, outcome, hdr, reader, out, last, cursors,
          seeks, readers, opened, found>>

\* The variables of the codec harness, those of the TOC decoder, and those of
\* the DataReader.
codecVars == <<op, ret>>
tocVars == <<num_entries, entries, entry, trace, outcome>>
dataVars == <<reader, out, last>>

\* The variables of the callers of an Archive: find_toc_entry and read_data.
useVars == <<cursors, seeks, readers, opened, found>>

(***************************************************************************)
(* 64-bit words                                                            *)
(***************************************************************************)
Zero64 == <<0, 0, 0, 0, 0, 0, 0, 0>>

\* The word of a small non-negative integer (below 2^24).
Word(n) == <<n % 256, (n \div 256) % 256, (n \div 65536) % 256, 0, 0, 0, 0, 0>>

RECURSIVE AddFrom(_, _, _, _)
\* Bytes k..8 of the sum a + b, and after them the carry out of byte 8.
AddFrom(a, b, k, carry) ==
    IF k > 8 THEN <<carry>>
    ELSE <<(a[k] + b[k] + carry) % 256>>
         \o AddFrom(a, b, k + 1, (a[k] + b[k] + carry) \div 256)

\* a + b modulo 2^64.
WrappingAdd(a, b) == SubSeq(AddFrom(a, b, 1, 0), 1, 8)

\* The carry out of a + b as unsigned 64-bit integers.
CarryOut(a, b) == AddFrom(a, b, 1, 0)[9]

\* Sign bit of a word read as i64.
IsNeg64(a) == a[8] >= 128

\* i64 addition overflows: equal signs in, another sign out.
AddOverflows(a, b) ==
    /\ IsNeg64(a) = IsNeg64(b)
    /\ IsNeg64(WrappingAdd(a, b)) # IsNeg64(a)

\* -a modulo 2^64.
WrappingNeg(a) ==
    WrappingAdd(<<255 - a[1], 255 - a[2], 255 - a[3], 255 - a[4],
                  255 - a[5], 255 - a[6], 255 - a[7], 255 - a[8]>>, Word(1))

\* i64::MIN, the one value whose negation overflows.
I64Min == <<0, 0, 0, 0, 0, 0, 0, 128>>

\* (b as i64) << (8 * k) for k in 0..7: the byte lands in byte k of the word.
ShlByte(b, k) ==
    SubSeq(<<0, 0, 0, 0, 0, 0, 0>>, 1, k) \o <<b>> \o
    SubSeq(<<0, 0, 0, 0, 0, 0, 0>>, 1, 7 - k)

RECURSIVE BitOr(_, _)
\* Bitwise or of two bytes.
BitOr(x, y) ==
    IF x = 0 THEN y
    ELSE IF y = 0 THEN x
    ELSE (IF x % 2 = 1 \/ y % 2 = 1 THEN 1 ELSE 0) + 2 * BitOr(x \div 2, y \div 2)

\* Bitwise or of two words.
Or64(a, b) ==
    <<BitOr(a[1], b[1]), BitOr(a[2], b[2]), BitOr(a[3], b[3]), BitOr(a[4], b[4]),
      BitOr(a[5], b[5]), BitOr(a[6], b[6]), BitOr(a[7], b[7]), BitOr(a[8], b[8])>>

\* A word that holds a non-negative value below 2^24.
IsSmall(a) == \A k \in 4..8 : a[k] = 0

\* The value of a small word.
SmallVal(a) == a[1] + 256 * a[2] + 65536 * a[3]

(***************************************************************************)
(* Streams                                                                 *)
(***************************************************************************)
\* Read::read_exact of n bytes at cursor p.  A short stream is an error and
\* leaves the cursor at the end of the stream.
read_exact(d, p, n) ==
    IF p + n <= Len(d)
    THEN [st |-> "ok", val |-> SubSeq(d, p + 1, p + n), pos |-> p + n, e |-> ""]
    ELSE [st |-> "err", val |-> <<>>, pos |-> Len(d), e |-> "eof"]

\* ReadConfig::read_byte
read_byte(d, p) ==
    LET r == read_exact(d, p, 1)
    IN  IF r.st = "ok"
        THEN [st |-> "ok", val |-> r.val[1], pos |-> r.pos, e |-> ""]
        ELSE [st |-> "err", val |-> 0, pos |-> r.pos, e |-> r.e]

RECURSIVE AccumulateInt(_, _, _, _, _)
\* The loop of read_int: result += (buffer[i + 1] as i64) << (i * 8) for
\* i in i..int_size-1.  With overflow checks a shift of 64 bits or more and
\* an overflowing addition panic; without them the shift amount is taken
\* modulo 64 and the addition wraps.
AccumulateInt(buffer, int_size, i, result, checks) ==
    IF i >= int_size THEN [panic |-> FALSE, val |-> result]
    ELSE IF checks /\ i * 8 >= 64 THEN [panic |-> TRUE, val |-> result]
    ELSE LET term == ShlByte(buffer[i + 2], i % 8)
         IN  IF checks /\ AddOverflows(result, term)
             THEN [panic |-> TRUE, val |-> result]
             ELSE AccumulateInt(buffer, int_size, i + 1,
                                WrappingAdd(result, term), checks)

\* read_int without its guard against an unset int_size.
read_int_unguarded(d, p, int_size, checks) ==
    LET r == read_exact(d, p, int_size + 1)
    IN  IF r.st # "ok"
        THEN [st |-> "err", val |-> Zero64, pos |-> r.pos, e |-> r.e]
        ELSE LET acc == AccumulateInt(r.val, int_size, 0, Zero64, checks)
             IN  IF acc.panic \/ (checks /\ r.val[1] # 0 /\ acc.val = I64Min)
                 THEN [st |-> "panic", val |-> Zero64, pos |-> r.pos,
                       e |-> "arithmetic overflow"]
                 ELSE [st |-> "ok",
                       val |-> IF r.val[1] # 0 THEN WrappingNeg(acc.val)
                               ELSE acc.val,
                       pos |-> r.pos, e |-> ""]

\* io::read_int
read_int(d, p, int_size, checks) ==
    IF int_size = 0
    THEN [st |-> "err", val |-> Zero64, pos |-> p, e |-> "integer size unknown"]
    ELSE LET r == read_exact(d, p, int_size + 1)
         IN  IF r.st # "ok"
             THEN [st |-> "err", val |-> Zero64, pos |-> r.pos, e |-> r.e]
             ELSE LET is_negative == r.val[1] # 0
                      acc == AccumulateInt(r.val, int_size, 0, Zero64, checks)
                  IN  IF acc.panic \/ (checks /\ is_negative /\ acc.val = I64Min)
                      THEN [st |-> "panic", val |-> Zero64, pos |-> r.pos,
                            e |-> "arithmetic overflow"]
                      ELSE [st |-> "ok",
                            val |-> IF is_negative THEN WrappingNeg(acc.val)
                                    ELSE acc.val,
                            pos |-> r.pos, e |-> ""]

\* i64 comparisons of read_string: length == -1 and length < 0.
MinusOne64 == <<255, 255, 255, 255, 255, 255, 255, 255>>

\* A continuation byte of a UTF-8 sequence.
IsCont(b) == b >= 128 /\ b <= 191

RECURSIVE Utf8Valid(_, _)
\* String::from_utf8 accepts the bytes of s from index i on.
Utf8Valid(s, i) ==
    IF i > Len(s) THEN TRUE
    ELSE LET b == s[i]
             has(n) == i + n <= Len(s)
         IN  IF b < 128 THEN Utf8Valid(s, i + 1)
             ELSE IF b >= 194 /\ b <= 223
                  THEN has(1) /\ IsCont(s[i + 1]) /\ Utf8Valid(s, i + 2)
             ELSE IF b >= 224 /\ b <= 239
                  THEN /\ has(2)
                       /\ IsCont(s[i + 1]) /\ IsCont(s[i + 2])
                       /\ (b = 224 => s[i + 1] >= 160)
                       /\ (b = 237 => s[i + 1] <= 159)
                       /\ Utf8Valid(s, i + 3)
             ELSE IF b >= 240 /\ b <= 244
                  THEN /\ has(3)
                       /\ IsCont(s[i + 1]) /\ IsCont(s[i + 2]) /\ IsCont(s[i + 3])
                       /\ (b = 240 => s[i + 1] >= 144)
                       /\ (b = 244 => s[i + 1] <= 143)
                       /\ Utf8Valid(s, i + 4)
             ELSE FALSE

\* read_string without the special case of the length -1.
read_string_no_marker(d, p, int_size, checks) ==
    LET l == read_int(d, p, int_size, checks)
    IN  IF l.st # "ok" THEN [st |-> l.st, val |-> <<>>, pos |-> l.pos, e |-> l.e]
        ELSE IF IsNeg64(l.val)
             THEN [st |-> "err", val |-> <<>>, pos |-> l.pos,
                   e |-> "invalid string length"]
        ELSE IF ~IsSmall(l.val)
             THEN [st |-> "err", val |-> <<>>, pos |-> Len(d), e |-> "eof"]
        ELSE LET r == read_exact(d, l.pos, SmallVal(l.val))
             IN  IF r.st # "ok"
                 THEN [st |-> "err", val |-> <<>>, pos |-> r.pos, e |-> r.e]
                 ELSE IF ~Utf8Valid(r.val, 1)
                      THEN [st |-> "err", val |-> <<>>, pos |-> r.pos,
                            e |-> "invalid utf-8"]
                      ELSE [st |-> "ok", val |-> r.val, pos |-> r.pos, e |-> ""]

\* ReadConfig::read_string.  A String is held as its bytes.  The buffer of
\* `length as usize` bytes is assumed to be allocated; a length beyond the
\* stream then fails in read_exact.
read_string(d, p, int_size, checks) ==
    LET l == read_int(d, p, int_size, checks)
    IN  IF l.st # "ok" THEN [st |-> l.st, val |-> <<>>, pos |-> l.pos, e |-> l.e]
        ELSE IF l.val = MinusOne64
             THEN [st |-> "ok", val |-> <<>>, pos |-> l.pos, e |-> ""]
        ELSE IF IsNeg64(l.val)
             THEN [st |-> "err", val |-> <<>>, pos |-> l.pos,
                   e |-> "invalid string length"]
        ELSE IF ~IsSmall(l.val)
             THEN [st |-> "err", val |-> <<>>, pos |-> Len(d), e |-> "eof"]
        ELSE LET r == read_exact(d, l.pos, SmallVal(l.val))
             IN  IF r.st # "ok"
                 THEN [st |-> "err", val |-> <<>>, pos |-> r.pos, e |-> r.e]
                 ELSE IF ~Utf8Valid(r.val, 1)
                      THEN [st |-> "err", val |-> <<>>, pos |-> r.pos,
                            e |-> "invalid utf-8"]
                      ELSE [st |-> "ok", val |-> r.val, pos |-> r.pos, e |-> ""]

\* ReadConfig::read_int_bool
read_int_bool(d, p, int_size, checks) ==
    LET r == read_int(d, p, int_size, checks)
    IN  [st |-> r.st, val |-> (r.st = "ok" /\ r.val # Zero64), pos |-> r.pos,
         e |-> r.e]

\* The text "true".
TrueText == <<116, 114, 117, 101>>

\* ReadConfig::read_string_bool
read_string_bool(d, p, int_size, checks) ==
    LET r == read_string(d, p, int_size, checks)
    IN  [st |-> r.st, val |-> (r.st = "ok" /\ r.val = TrueText), pos |-> r.pos,
         e |-> r.e]

\* An ASCII decimal digit, and the bytes of '+' and '-'.
IsDigit(b) == b >= 48 /\ b <= 57
PlusSign == <<43>>
MinusSign == <<45>>

RECURSIVE MulFrom(_, _, _, _)
\* Bytes k..8 of the product a * m, m a small factor, and after them the
\* carry out of byte 8.
MulFrom(a, m, k, carry) ==
    IF k > 8 THEN <<carry>>
    ELSE <<(a[k] * m + carry) % 256>>
         \o MulFrom(a, m, k + 1, (a[k] * m + carry) \div 256)

RECURSIVE AccumulateDigits(_, _, _)
\* The digit loop of from_str_radix(_, 10) over an unsigned 64-bit magnitude:
\* result = result * 10 + digit, an error on a non-digit or on overflow.
AccumulateDigits(s, i, result) ==
    IF i > Len(s) THEN [ok |-> TRUE, val |-> result]
    ELSE IF ~IsDigit(s[i]) THEN [ok |-> FALSE, val |-> result]
    ELSE LET product == MulFrom(result, 10, 1, 0)
             times10 == SubSeq(product, 1, 8)
             digit == Word(s[i] - 48)
         IN  IF product[9] # 0 \/ CarryOut(times10, digit) # 0
             THEN [ok |-> FALSE, val |-> result]
             ELSE AccumulateDigits(s, i + 1, WrappingAdd(times10, digit))

\* u64::from_str_radix(s, 10): an optional '+', then digits; no '-'.
ParseU64(s) ==
    IF s = <<>> \/ s = PlusSign \/ s = MinusSign THEN [ok |-> FALSE, val |-> Zero64]
    ELSE AccumulateDigits(IF s[1] = 43 THEN Tail(s) ELSE s, 1, Zero64)

\* i64::from_str_radix(s, 10): an optional '+' or '-', then digits.
ParseI64(s) ==
    IF s = <<>> \/ s = PlusSign \/ s = MinusSign THEN [ok |-> FALSE, val |-> Zero64]
    ELSE LET minus == s[1] = 45
             m == AccumulateDigits(IF s[1] \in {43, 45} THEN Tail(s) ELSE s, 1, Zero64)
         IN  IF ~m.ok THEN m
             ELSE IF minus
                  THEN IF IsNeg64(m.val) /\ m.val # I64Min
                       THEN [ok |-> FALSE, val |-> Zero64]
                       ELSE [ok |-> TRUE, val |-> WrappingNeg(m.val)]
                  ELSE IF IsNeg64(m.val)
                       THEN [ok |-> FALSE, val |-> Zero64]
                       ELSE m

\* ReadConfig::read_oid
read_oid(d, p, int_size, checks) ==
    LET v == read_string(d, p, int_size, checks)
    IN  IF v.st # "ok" THEN [st |-> v.st, val |-> Zero64, pos |-> v.pos, e |-> v.e]
        ELSE LET n == ParseU64(v.val)
             IN  IF n.ok
                 THEN [st |-> "ok", val |-> n.val, pos |-> v.pos, e |-> ""]
                 ELSE [st |-> "err", val |-> Zero64, pos |-> v.pos,
                       e |-> "invalid digit"]

\* types::Offset
Unknown == [kind |-> "Unknown", at |-> Zero64]
PosNotSet == [kind |-> "PosNotSet", at |-> Zero64]
NoData == [kind |-> "NoData", at |-> Zero64]
PosSet(offset) == [kind |-> "PosSet", at |-> offset]

RECURSIVE AccumulateOffset(_, _, _, _, _)
\* The loop of read_offset: offset |= (buffer[i + 1] as u64) << (i * 8).
AccumulateOffset(buffer, offset_size, i, offset, checks) ==
    IF i >= offset_size THEN [panic |-> FALSE, val |-> offset]
    ELSE IF checks /\ i * 8 >= 64 THEN [panic |-> TRUE, val |-> offset]
    ELSE AccumulateOffset(buffer, offset_size, i + 1,
                          Or64(offset, ShlByte(buffer[i + 2], i % 8)), checks)

\* ReadConfig::read_offset
read_offset(d, p, offset_size, checks) ==
    IF offset_size = 0
    THEN [st |-> "err", val |-> Unknown, pos |-> p, e |-> "offset size unknown"]
    ELSE LET r == read_exact(d, p, offset_size + 1)
         IN  IF r.st # "ok"
             THEN [st |-> "err", val |-> Unknown, pos |-> r.pos, e |-> r.e]
             ELSE CASE r.val[1] = 0 ->
                         [st |-> "ok", val |-> Unknown, pos |-> r.pos, e |-> ""]
                    [] r.val[1] = 1 ->
                         [st |-> "ok", val |-> PosNotSet, pos |-> r.pos, e |-> ""]
                    [] r.val[1] = 2 ->
                         LET acc == AccumulateOffset(r.val, offset_size, 0, Zero64, checks)
                         IN  IF acc.panic
                             THEN [st |-> "panic", val |-> Unknown, pos |-> r.pos,
                                   e |-> "arithmetic overflow"]
                             ELSE [st |-> "ok", val |-> PosSet(acc.val), pos |-> r.pos,
                                   e |-> ""]
                    [] r.val[1] = 3 ->
                         [st |-> "ok", val |-> NoData, pos |-> r.pos, e |-> ""]
                    [] OTHER ->
                         [st |-> "err", val |-> Unknown, pos |-> r.pos,
                          e |-> "invalid offset type"]

(***************************************************************************)
(* Inputs of the primitive codec                                           *)
(***************************************************************************)
\* Bounds of the codec inputs.
MaxTail == 1
MaxCut == 2
MaxStrLen == 5

\* Widths a header byte can set, besides 0 (unset): two narrow ones, the
\* width of the accumulator, and one beyond it.
Widths == {1, 2, 8, 9}

SignBytes == {0, 1, 2, 3, 4}
LoBytes == {0, 1, 255}
MidBytes == {0, 255}
HiBytes == {0, 127, 128}

\* w magnitude bytes, least significant first.
Magnitude(w, lo, mid, hi) ==
    IF w = 1 THEN <<lo>>
    ELSE <<lo>> \o SubSeq(<<mid, mid, mid, mid, mid, mid, mid>>, 1, w - 2) \o <<hi>>

\* The encoding of the small integer v with w magnitude bytes.
EncInt(v, w) ==
    LET m == IF v < 0 THEN -v ELSE v
    IN  <<IF v < 0 THEN 1 ELSE 0>>
        \o SubSeq(<<m % 256, (m \div 256) % 256, 0, 0, 0, 0, 0, 0, 0>>, 1, w)

\* d without its last n bytes.
DropLast(d, n) == SubSeq(d, 1, IF n >= Len(d) THEN 0 ELSE Len(d) - n)

\* n bytes of value 7.
Filler(n) == SubSeq(<<7, 7, 7, 7>>, 1, n)

\* A sign or tag byte and w magnitude bytes, followed by up to MaxTail more
\* bytes and cut short by up to MaxCut bytes.
NumericInputs(w) ==
    { DropLast(<<s>> \o Magnitude(w, lo, mid, hi) \o Filler(t), c) :
        s \in SignBytes, lo \in LoBytes, mid \in MidBytes, hi \in HiBytes,
        t \in 0..MaxTail, c \in 0..MaxCut }

\* Texts that follow a length: numbers, signs, "true", "false", and byte
\* sequences that are and are not UTF-8.
Bodies ==
    { <<49, 50>>, <<45, 49>>, <<43, 55>>, <<120, 49>>,
      <<116, 114, 117, 101, 33>>, <<102, 97, 108, 115, 101>>,
      <<195, 169, 48>>, <<255, 48>>, <<48, 195>> }

\* A length from -2 to MaxStrLen followed by a body.
StringInputs(w) ==
    { EncInt(l, w) \o b : l \in (-2)..MaxStrLen, b \in Bodies }

CodecInputs(w) == NumericInputs(w) \cup StringInputs(w)

(***************************************************************************)
(* The primitive codec, each primitive called once on a stream             *)
(***************************************************************************)
NoRet == [st |-> "none", val |-> 0, pos |-> 0, e |-> ""]
NoOutcome == [st |-> "none", e |-> ""]

InitCodec ==
    /\ overflow_checks \in BOOLEAN
    /\ \E w \in Widths :
         /\ data \in CodecInputs(w)
         /\ cfg \in [int_size : {0, w}, offset_size : {0, w}]
    /\ pos = 0
    /\ pc = "call"
    /\ op = "none"
    /\ ret = NoRet
    /\ given = <<>>
    /\ num_entries = Zero64
    /\ entries = <<>>
    /\ entry = <<>>
    /\ trace = <<>>
    /\ outcome = NoOutcome
    /\ hdr = <<>>
    /\ reader = <<>>
    /\ out = <<>>
    /\ last = <<>>
    /\ cursors = <<>>
    /\ seeks = <<>>
    /\ readers = <<>>
    /\ opened = <<>>
    /\ found = <<>>

\* The harness: call primitive `name`, whose result is r.
Called(name, r) ==
    /\ pc = "call"
    /\ op' = name
    /\ ret' = r
    /\ pos' = r.pos
    /\ pc' = "done"
    /\ UNCHANGED <<overflow_checks, data, cfg, given>>
    /\ UNCHANGED <<tocVars, hdr, dataVars, useVars>>

CallReadByte == Called("read_byte", read_byte(data, pos))

CallReadInt ==
    Called("read_int", read_int(data, pos, cfg.int_size, overflow_checks))

CallReadString ==
    Called("read_string", read_string(data, pos, cfg.int_size, overflow_checks))

CallReadIntBool ==
    Called("read_int_bool", read_int_bool(data, pos, cfg.int_size, overflow_checks))

CallReadStringBool ==
    Called("read_string_bool",
           read_string_bool(data, pos, cfg.int_size, overflow_checks))

CallReadOid ==
    Called("read_oid", read_oid(data, pos, cfg.int_size, overflow_checks))

CallReadOffset ==
    Called("read_offset", read_offset(data, pos, cfg.offset_size, overflow_checks))

NextCodec ==
    \/ CallReadByte
    \/ CallReadInt
    \/ CallReadString
    \/ CallReadIntBool
    \/ CallReadStringBool
    \/ CallReadOid
    \/ CallReadOffset

SpecCodec == InitCodec /\ [][NextCodec]_vars

(***************************************************************************)
(* Claims about the primitive codec (under SpecCodec)                      *)
(***************************************************************************)
\* The magnitude bytes of the integer or offset at the head of the stream.
HeadMagnitude(n) == SubSeq(data, 2, n + 1)

\* The first 8 bytes of a magnitude, padded with zeros: its value as a word.
MagWord(mag) == SubSeq(mag \o Zero64, 1, 8)

\* The magnitude is below 2^63: it has a value as an i64.
FitsI64(mag) ==
    /\ \A k \in 9..Len(mag) : mag[k] = 0
    /\ Len(mag) >= 8 => mag[8] < 128

\* The magnitude is below 2^64: it has a value as a u64.
FitsU64(mag) == \A k \in 9..Len(mag) : mag[k] = 0

\* C4: for every int_size n >= 1, a sign byte and n magnitude bytes whose
\* value fits an i64 make read_int consume exactly 1 + n bytes and return the
\* little-endian magnitude, negated when the sign byte is nonzero (0 for an
\* all-zero magnitude whatever the sign); fewer than 1 + n bytes are an error.
C4_ReadIntDecodes ==
    (pc = "done" /\ op = "read_int" /\ cfg.int_size >= 1) =>
        LET n == cfg.int_size
            m == MagWord(HeadMagnitude(n))
        IN  IF Len(data) < 1 + n THEN ret.st = "err"
            ELSE FitsI64(HeadMagnitude(n)) =>
                   /\ ret.st = "ok"
                   /\ ret.pos = 1 + n
                   /\ data[1] = 0 => ret.val = m
                   /\ data[1] # 0 =>
                        /\ WrappingAdd(ret.val, m) = Zero64
                        /\ ret.val = Zero64 \/ IsNeg64(ret.val)
                   /\ m = Zero64 => ret.val = Zero64

\* C4 restricted to the widths an i64 accumulator holds (int_size <= 8).
C4_ReadIntDecodesUpTo8 == cfg.int_size <= 8 => C4_ReadIntDecodes

C5_WitnessMarker ==
    /\ pc = "done" /\ op = "read_string" /\ ret.st = "ok" /\ ret.val = <<>>
    /\ read_int(data, 0, cfg.int_size, overflow_checks).val = MinusOne64

\* C6: for every nonzero offset_size and each tag 0..3, read_offset consumes
\* exactly 1 + offset_size bytes; tags 0, 1 and 3 give Unknown, PosNotSet and
\* NoData whatever the magnitude, and tag 2 gives PosSet(p), p the
\* little-endian value of the magnitude bytes (stated for the magnitudes that
\* have a value as a u64).
C6_ReadOffsetDecodes ==
    (/\ pc = "done" /\ op = "read_offset"
     /\ cfg.offset_size >= 1
     /\ Len(data) >= 1 + cfg.offset_size
     /\ data[1] \in 0..3
     /\ FitsU64(HeadMagnitude(cfg.offset_size))) =>
        /\ ret.st = "ok"
        /\ ret.pos = 1 + cfg.offset_size
        /\ data[1] = 0 => ret.val = Unknown
        /\ data[1] = 1 => ret.val = PosNotSet
        /\ data[1] = 2 => ret.val = PosSet(MagWord(HeadMagnitude(cfg.offset_size)))
        /\ data[1] = 3 => ret.val = NoData

\* C6 restricted to the widths a u64 holds (offset_size <= 8).
C6_ReadOffsetDecodesUpTo8 == cfg.offset_size <= 8 => C6_ReadOffsetDecodes

\* C7: with int_size = 0 each of read_int, read_string, read_int_bool,
\* read_string_bool and read_oid returns an error, and with offset_size = 0
\* read_offset returns an error; none returns a value and none consumes a
\* byte of the stream.
C7_UnsetWidthFails ==
    pc = "done" =>
        /\ (/\ cfg.int_size = 0
            /\ op \in {"read_int", "read_string", "read_int_bool",
                       "read_string_bool", "read_oid"}) =>
               ret.st = "err" /\ ret.e = "integer size unknown" /\ pos = 0
        /\ (cfg.offset_size = 0 /\ op = "read_offset") =>
               ret.st = "err" /\ ret.e = "offset size unknown" /\ pos = 0

\* read_oid was called with int_size = 0 on a stream that holds bytes.
C7_Witness ==
    /\ pc = "done" /\ op = "read_oid" /\ cfg.int_size = 0
    /\ Len(data) > 2 /\ ret.st = "err"

(***************************************************************************)
(* The TOC decoder: read_toc and TocEntry::parse, one step per field       *)
(***************************************************************************)
\* size_of::<TocEntry>() on a 64-bit target: three 8-byte integers, nine
\* Strings and a Vec of 24 bytes each, a 16-byte Offset, a bool and a Section.
TocEntrySize == 288

\* Vec::with_capacity(n as usize) of TocEntry panics with "capacity overflow"
\* when the byte size exceeds isize::MAX; a negative n is a usize above 2^63.
\* An allocation within that limit is assumed to succeed.
CapacityOverflows(n) ==
    LET bytes == MulFrom(n, TocEntrySize, 1, 0)
    IN  bytes[9] # 0 \/ bytes[8] >= 128

\* Section::try_from(i64)
SectionOf(v) ==
    CASE v = Word(1) -> "None"
      [] v = Word(2) -> "PreData"
      [] v = Word(3) -> "Data"
      [] v = Word(4) -> "PostData"
      [] OTHER -> "invalid"

\* The locals of TocEntry::parse before anything is read.
NoEntry ==
    [id |-> Zero64, had_dumper |-> FALSE, table_oid |-> Zero64, oid |-> Zero64,
     tag |-> <<>>, desc |-> <<>>, section |-> "None", defn |-> <<>>,
     drop_stmt |-> <<>>, copy_stmt |-> <<>>, namespace |-> <<>>,
     tablespace |-> <<>>, table_access_method |-> <<>>, owner |-> <<>>,
     dependencies |-> <<>>, offset |-> Unknown]

\* A loop bound that stops one entry early: the variant of read_toc that
\* C8_ReadTocExact must tell apart from the code.
LessThan64_short(i, n) == ~IsNeg64(n) /\ (IsSmall(n) => i + 1 < SmallVal(n))

\* i < n for a count i of the model and an i64 n.
LessThan64(i, n) == ~IsNeg64(n) /\ (IsSmall(n) => i < SmallVal(n))

\* The operation ends: every `?` and every `return Err`.
Finish(st, e) ==
    /\ pc' = "done"
    /\ outcome' = [st |-> st, e |-> e]

\* read_toc, first statement: the count, and the allocation of the list.
ReadTocCount ==
    /\ pc = "toc_count"
    /\ LET r == read_int(data, pos, cfg.int_size, overflow_checks)
       IN  /\ pos' = r.pos
           /\ IF r.st # "ok"
              THEN Finish(r.st, r.e) /\ UNCHANGED num_entries
              ELSE /\ num_entries' = r.val
                   /\ IF CapacityOverflows(r.val)
                      THEN Finish("panic", "capacity overflow")
                      ELSE pc' = "toc_loop" /\ UNCHANGED outcome
    /\ UNCHANGED <<overflow_checks, data, cfg, given, entries, entry, trace>>
    /\ UNCHANGED <<codecVars, hdr, dataVars, useVars>>

\* read_toc: `for _ in 0..num_entries`, then Ok(entries).
TocLoop ==
    /\ pc = "toc_loop"
    /\ IF LessThan64(Len(entries), num_entries)
       THEN pc' = "id" /\ entry' = NoEntry /\ UNCHANGED outcome
       ELSE Finish("ok", "") /\ UNCHANGED entry
    /\ UNCHANGED <<overflow_checks, data, pos, cfg, given, num_entries, entries,
                   trace>>
    /\ UNCHANGED <<codecVars, hdr, dataVars, useVars>>

\* One field of TocEntry::parse: at pc = name the read gave r; a failed read
\* or a value that is not valid ends the parse with an error, otherwise the
\* local `name` becomes val and the parse goes on at `next`.
EntryField(name, next, r, valid, val, msg) ==
    /\ pc = name
    /\ pos' = r.pos
    /\ trace' = Append(trace, [field |-> name, at |-> pos])
    /\ IF r.st # "ok" THEN Finish(r.st, r.e) /\ UNCHANGED entry
       ELSE IF ~valid THEN Finish("err", msg) /\ UNCHANGED entry
       ELSE /\ pc' = next
            /\ entry' = [entry EXCEPT ![name] = val]
            /\ UNCHANGED outcome
    /\ UNCHANGED <<overflow_checks, data, cfg, given, num_entries, entries>>
    /\ UNCHANGED <<codecVars, hdr, dataVars, useVars>>

\* A String field of the entry.
EntryString(name, next) ==
    LET r == read_string(data, pos, cfg.int_size, overflow_checks)
    IN  EntryField(name, next, r, TRUE, r.val, "")

\* A numeric field of the entry, stored as a decimal string.
EntryOid(name, next) ==
    LET r == read_oid(data, pos, cfg.int_size, overflow_checks)
    IN  EntryField(name, next, r, TRUE, r.val, "")

ParseId ==
    LET r == read_int(data, pos, cfg.int_size, overflow_checks)
    IN  EntryField("id", "had_dumper", r, ~IsNeg64(r.val), r.val, "negative TOC id")

ParseHadDumper ==
    LET r == read_int_bool(data, pos, cfg.int_size, overflow_checks)
    IN  EntryField("had_dumper", "table_oid", r, TRUE, r.val, "")

ParseTableOid == EntryOid("table_oid", "oid")

ParseOid == EntryOid("oid", "tag")

ParseTag == EntryString("tag", "desc")

ParseDesc == EntryString("desc", "section")

ParseSection ==
    LET r == read_int(data, pos, cfg.int_size, overflow_checks)
    IN  EntryField("section", "defn", r, SectionOf(r.val) # "invalid",
                   SectionOf(r.val), "invalid section type")

ParseDefn == EntryString("defn", "drop_stmt")

ParseDropStmt == EntryString("drop_stmt", "copy_stmt")

ParseCopyStmt == EntryString("copy_stmt", "namespace")

ParseNamespace == EntryString("namespace", "tablespace")

ParseTablespace == EntryString("tablespace", "table_access_method")

ParseTableAccessMethod == EntryString("table_access_method", "owner")

\* An entry parser that does not read the reserved boolean: the variant that
\* C9_CodeOrder must tell apart from the code.
ParseOwner_skips_reserved == EntryString("owner", "dependencies")

ParseOwner == EntryString("owner", "reserved")

\* `if cfg.read_string_bool(f)? { return Err(..) }`: the value is kept nowhere.
ParseReserved ==
    /\ pc = "reserved"
    /\ LET r == read_string_bool(data, pos, cfg.int_size, overflow_checks)
       IN  /\ pos' = r.pos
           /\ IF r.st # "ok" THEN Finish(r.st, r.e)
              ELSE IF r.val THEN Finish("err", "mysterious value must be false")
              ELSE pc' = "dependencies" /\ UNCHANGED outcome
    /\ trace' = Append(trace, [field |-> "reserved", at |-> pos])
    /\ UNCHANGED <<overflow_checks, data, cfg, given, num_entries, entries, entry>>
    /\ UNCHANGED <<codecVars, hdr, dataVars, useVars>>

\* One turn of the dependency loop: an empty string ends it, any other
\* string is parsed as an i64 and pushed.
ParseDependency ==
    /\ pc = "dependencies"
    /\ LET dep_id == read_string(data, pos, cfg.int_size, overflow_checks)
           id == ParseI64(dep_id.val)
       IN  /\ pos' = dep_id.pos
           /\ IF dep_id.st # "ok"
              THEN Finish(dep_id.st, dep_id.e) /\ UNCHANGED entry
              ELSE IF dep_id.val = <<>>
              THEN pc' = "offset" /\ UNCHANGED <<entry, outcome>>
              ELSE IF ~id.ok
              THEN Finish("err", "invalid dependency id") /\ UNCHANGED entry
              ELSE /\ entry' = [entry EXCEPT
                                  !.dependencies = Append(@, id.val)]
                   /\ UNCHANGED <<pc, outcome>>
    /\ trace' = Append(trace, [field |-> "dependencies", at |-> pos])
    /\ UNCHANGED <<overflow_checks, data, cfg, given, num_entries, entries>>
    /\ UNCHANGED <<codecVars, hdr, dataVars, useVars>>

\* The last field; Ok(TocEntry {..}) is pushed by read_toc.
ParseOffset ==
    /\ pc = "offset"
    /\ LET r == read_offset(data, pos, cfg.offset_size, overflow_checks)
       IN  /\ pos' = r.pos
           /\ IF r.st # "ok"
              THEN Finish(r.st, r.e) /\ UNCHANGED <<entry, entries>>
              ELSE /\ entry' = [entry EXCEPT !.offset = r.val]
                   /\ entries' = Append(entries, entry')
                   /\ pc' = "toc_loop"
                   /\ UNCHANGED outcome
    /\ trace' = Append(trace, [field |-> "offset", at |-> pos])
    /\ UNCHANGED <<overflow_checks, data, cfg, given, num_entries>>
    /\ UNCHANGED <<codecVars, hdr, dataVars, useVars>>

\* TocEntry::parse, any of its steps.
ParseEntry ==
    \/ ParseId
    \/ ParseHadDumper
    \/ ParseTableOid
    \/ ParseOid
    \/ ParseTag
    \/ ParseDesc
    \/ ParseSection
    \/ ParseDefn
    \/ ParseDropStmt
    \/ ParseCopyStmt
    \/ ParseNamespace
    \/ ParseTablespace
    \/ ParseTableAccessMethod
    \/ ParseOwner
    \/ ParseReserved
    \/ ParseDependency
    \/ ParseOffset

NextToc == ReadTocCount \/ TocLoop \/ ParseEntry

(***************************************************************************)
(* Inputs of the TOC decoder: streams built from plans of entries          *)
(***************************************************************************)
\* Bound: the number of entries a stream holds.
MaxEntries == 2

\* An optional text: a string field is either absent (length -1) or a text.
Absent == [some |-> FALSE, text |-> <<>>]
Some(t) == [some |-> TRUE, text |-> t]

\* A number as the format writes it, with the value it stands for (ok = FALSE:
\* not a number the field accepts).
Num(t, v) == [text |-> t, val |-> v, ok |-> TRUE]
NotNum(t) == [text |-> t, val |-> 0, ok |-> FALSE]

\* Two well-formed entries.
BasePlan1 ==
    [id |-> 5, had_dumper |-> 0, table_oid |-> Num(<<48>>, 0),
     oid |-> Num(<<49, 50>>, 12), tag |-> Some(<<97, 98>>), desc |-> Some(<<84>>),
     section |-> 2, defn |-> Some(<<83, 59>>), drop_stmt |-> Absent,
     copy_stmt |-> Absent, namespace |-> Absent, tablespace |-> Absent,
     table_access_method |-> Absent, owner |-> Some(<<>>),
     reserved |-> Some(<<102, 97, 108, 115, 101>>), deps |-> <<>>,
     offset_tag |-> 3, offset_at |-> 0]

BasePlan2 ==
    [id |-> 200, had_dumper |-> 1, table_oid |-> Num(<<49, 50>>, 12),
     oid |-> Num(<<43, 55>>, 7), tag |-> Some(<<112>>), desc |-> Some(<<84, 68>>),
     section |-> 3, defn |-> Absent, drop_stmt |-> Absent,
     copy_stmt |-> Some(<<67>>), namespace |-> Some(<<110>>),
     tablespace |-> Absent, table_access_method |-> Absent,
     owner |-> Some(<<119>>), reserved |-> Absent,
     deps |-> <<Num(<<50, 49>>, 21)>>, offset_tag |-> 2, offset_at |-> 77]

\* A plan with one field changed, to well-formed and to malformed values.
Variants(b) ==
    { [b EXCEPT !.id = v] : v \in {0, -1} }
    \cup { [b EXCEPT !.had_dumper = v] : v \in {2, -1} }
    \cup { [b EXCEPT !.table_oid = NotNum(<<120, 49>>)],
           [b EXCEPT !.oid = NotNum(<<45, 49>>)],
           [b EXCEPT !.tag = Some(<<255>>)],
           [b EXCEPT !.tag = Absent],
           [b EXCEPT !.reserved = Some(TrueText)],
           [b EXCEPT !.reserved = Some(<<102, 97, 108, 115>>)],
           [b EXCEPT !.deps = <<Num(<<50, 49>>, 21), Num(<<45, 51>>, -3)>>],
           [b EXCEPT !.deps = <<Num(<<43, 55>>, 7)>>],
           [b EXCEPT !.deps = <<NotNum(<<120>>)>>] }
    \cup { [b EXCEPT !.section = v] : v \in {0, 1, 4, 5} }
    \cup { [b EXCEPT !.offset_tag = v, !.offset_at = 9] : v \in {0, 1, 2, 4} }

\* The well-formed entries of a stream of m entries.
BaseList(m) == SubSeq(<<BasePlan1, BasePlan2, BasePlan1, BasePlan2>>, 1, m)

\* Lists of up to MaxEntries plans, at most one of them a variant.
PlanLists ==
    { BaseList(m) : m \in 0..MaxEntries }
    \cup { [BaseList(m) EXCEPT ![i] = v] :
             m \in 1..MaxEntries, i \in 1..MaxEntries, v \in Variants(BasePlan1) }

\* The encoding of a string field.
EncText(t, w) == IF t.some THEN EncInt(Len(t.text), w) \o t.text ELSE EncInt(-1, w)

\* The encoding of an offset: a tag and ow magnitude bytes.
EncOffset(tag, at, ow) == <<tag>> \o SubSeq(<<at, 0, 0, 0, 0, 0, 0, 0, 0>>, 1, ow)

\* The bytes one read of the decoder is meant to consume, and their field.
Piece(f, b) == [field |-> f, bytes |-> b]

RECURSIVE DepPieces(_, _)
\* The dependency list: one string per dependency, then the terminator.
DepPieces(deps, w) ==
    IF deps = <<>> THEN <<Piece("dependencies", EncText(Absent, w))>>
    ELSE <<Piece("dependencies", EncText(Some(Head(deps).text), w))>>
         \o DepPieces(Tail(deps), w)

\* One entry as pg_dump writes it (the byte layout of the fixtures of
\* encoding_toc_entry and single_entry_toc).
EntryPieces(p, w, ow) ==
    << Piece("id", EncInt(p.id, w)),
       Piece("had_dumper", EncInt(p.had_dumper, w)),
       Piece("table_oid", EncText(Some(p.table_oid.text), w)),
       Piece("oid", EncText(Some(p.oid.text), w)),
       Piece("tag", EncText(p.tag, w)),
       Piece("desc", EncText(p.desc, w)),
       Piece("section", EncInt(p.section, w)),
       Piece("defn", EncText(p.defn, w)),
       Piece("drop_stmt", EncText(p.drop_stmt, w)),
       Piece("copy_stmt", EncText(p.copy_stmt, w)),
       Piece("namespace", EncText(p.namespace, w)),
       Piece("tablespace", EncText(p.tablespace, w)),
       Piece("table_access_method", EncText(p.table_access_method, w)),
       Piece("owner", EncText(p.owner, w)),
       Piece("reserved", EncText(p.reserved, w)) >>
    \o DepPieces(p.deps, w)
    \o << Piece("offset", EncOffset(p.offset_tag, p.offset_at, ow)) >>

RECURSIVE TocPieces(_, _, _)
\* The pieces of a list of entries.
TocPieces(ps, w, ow) ==
    IF ps = <<>> THEN <<>>
    ELSE EntryPieces(Head(ps), w, ow) \o TocPieces(Tail(ps), w, ow)

RECURSIVE Flatten(_)
\* The bytes of a sequence of pieces.
Flatten(pieces) ==
    IF pieces = <<>> THEN <<>> ELSE Head(pieces).bytes \o Flatten(Tail(pieces))

\* The encoding of a TOC: the count and the entries.
EncToc(count, ps, w, ow) == EncInt(count, w) \o Flatten(TocPieces(ps, w, ow))

\* The widths of the TOC streams: (int_size, offset_size).
TocWidths == {<<1, 1>>, <<4, 8>>}

\* Numbers of bytes missing at the end of a stream.
TocCuts == {0, 1, 7}

(***************************************************************************)
(* read_toc called on a stream                                             *)
(***************************************************************************)
\* The state before read_toc or Archive::parse has read anything.
TocStart ==
    /\ num_entries = Zero64
    /\ entries = <<>>
    /\ entry = NoEntry
    /\ trace = <<>>
    /\ outcome = NoOutcome
    /\ op = "none"
    /\ ret = NoRet
    /\ reader = <<>>
    /\ out = <<>>
    /\ last = <<>>
    /\ cursors = <<>>
    /\ seeks = <<>>
    /\ readers = <<>>
    /\ opened = <<>>
    /\ found = <<>>

InitToc ==
    /\ overflow_checks \in BOOLEAN
    /\ \E wd \in TocWidths, count \in (-1)..(MaxEntries + 1), ps \in PlanLists,
          cut \in TocCuts :
         /\ given = [count |-> count, plans |-> ps, cut |-> cut]
         /\ data = DropLast(EncToc(count, ps, wd[1], wd[2]), cut)
         /\ cfg = [int_size |-> wd[1], offset_size |-> wd[2]]
    /\ pos = 0
    /\ pc = "toc_count"
    /\ hdr = <<>>
    /\ TocStart

SpecToc == InitToc /\ [][NextToc]_vars

(***************************************************************************)
(* Claims about read_toc and TocEntry::parse                               *)
(***************************************************************************)
\* The i64 of a small integer of either sign.
IntWord(v) == IF v < 0 THEN WrappingNeg(Word(-v)) ELSE Word(v)

\* The text of an optional text: an absent string reads as the empty string.
TextOf(t) == IF t.some THEN t.text ELSE <<>>

\* The plan describes an entry every field of which is valid.
PlanValid(p) ==
    /\ p.id >= 0
    /\ p.table_oid.ok /\ p.oid.ok
    /\ p.tag # Some(<<255>>)
    /\ p.section \in 1..4
    /\ p.reserved # Some(TrueText)
    /\ \A i \in 1..Len(p.deps) : p.deps[i].ok
    /\ p.offset_tag \in 0..3

\* The value the plan gives to field f of the entry.
PlanField(p, f) ==
    CASE f = "id" -> IntWord(p.id)
      [] f = "had_dumper" -> p.had_dumper # 0
      [] f = "table_oid" -> IntWord(p.table_oid.val)
      [] f = "oid" -> IntWord(p.oid.val)
      [] f = "section" -> <<"None", "PreData", "Data", "PostData">>[p.section]
      [] f = "dependencies" -> [i \in 1..Len(p.deps) |-> IntWord(p.deps[i].val)]
      [] f = "offset" ->
           <<Unknown, PosNotSet, PosSet(IntWord(p.offset_at)), NoData>>[p.offset_tag + 1]
      [] OTHER -> TextOf(p[f])

\* The TocEntry a valid plan describes.
PlanEntry(p) == [f \in DOMAIN NoEntry |-> PlanField(p, f)]

\* The stream holds the whole of its first i entries.
HoldsEntries(i) ==
    /\ i <= Len(given.plans)
    /\ Len(data) >= Len(EncToc(given.count, SubSeq(given.plans, 1, i),
                               cfg.int_size, cfg.offset_size))

\* C8: read_toc decodes the count n and then exactly n entries in stream
\* order: when it succeeds the list has n elements, the i-th of them the i-th
\* entry of the stream, and nothing after the n-th entry was consumed (n = 0:
\* the empty list); when the stream ends or a field is invalid within the
\* first n entries the result is an error, and no list is returned.
C8_ReadTocExact ==
    pc = "done" =>
      /\ outcome.st = "ok" =>
           /\ given.count >= 0
           /\ Len(entries) = given.count
           /\ HoldsEntries(given.count)
           /\ \A i \in 1..given.count :
                PlanValid(given.plans[i]) /\ entries[i] = PlanEntry(given.plans[i])
           /\ pos = Len(EncToc(given.count, SubSeq(given.plans, 1, given.count),
                               cfg.int_size, cfg.offset_size))
      /\ (\E i \in 1..given.count :
            ~HoldsEntries(i) \/ ~PlanValid(given.plans[i]))
           => outcome.st = "err"

\* read_toc returned both entries of a stream of two entries.
C8_Witness ==
    /\ pc = "done" /\ outcome.st = "ok"
    /\ given.count = 2 /\ Len(entries) = 2
    /\ entries[1].id # entries[2].id

\* read_toc returned the empty list for a count of 0.
C8_WitnessEmpty ==
    pc = "done" /\ outcome.st = "ok" /\ given.count = 0 /\ entries = <<>>

\* read_toc failed on a stream that ends inside its second entry.
C8_WitnessTruncated ==
    /\ pc = "done" /\ outcome.st = "err"
    /\ given.count = 2 /\ Len(entries) = 1 /\ given.cut > 0

\* The fields in the order in which the data model is said to list them.
ClaimedOrder ==
    << "id", "table_oid", "oid", "tag", "desc", "section", "defn", "drop_stmt",
       "copy_stmt", "namespace", "tablespace", "table_access_method", "owner",
       "had_dumper", "reserved", "dependencies", "offset" >>

\* The fields in the order in which TocEntry::parse reads them.
CodeOrder ==
    << "id", "had_dumper", "table_oid", "oid", "tag", "desc", "section", "defn",
       "drop_stmt", "copy_stmt", "namespace", "tablespace",
       "table_access_method", "owner", "reserved", "dependencies", "offset" >>

\* The place of field f in an order.
Rank(order, f) == CHOOSE k \in 1..Len(order) : order[k] = f

\* In `order`, a read of field g may directly follow a read of field f.
Follows(order, f, g) ==
    \/ Rank(order, g) = Rank(order, f) + 1
    \/ f = "dependencies" /\ g = "dependencies"
    \/ Rank(order, f) = Len(order) /\ Rank(order, g) = 1

\* The reads made so far consumed the fields in `order`, entry after entry.
InOrder(order) ==
    /\ trace # <<>> => trace[1].field = order[1]
    /\ \A k \in 2..Len(trace) : Follows(order, trace[k - 1].field, trace[k].field)

\* C9 as stated: the fields of an entry are consumed in the order id,
\* table_oid, oid, tag, desc, section, defn, drop_stmt, copy_stmt, namespace,
\* tablespace, table_access_method, owner, had_dumper, reserved, dependencies,
\* offset.
C9_ClaimedOrder == InOrder(ClaimedOrder)

\* The pieces of the stream's entries, in stream order.
GivenPieces == TocPieces(given.plans, cfg.int_size, cfg.offset_size)

\* C9, with the order the code has: the fields of an entry are consumed in
\* the order id, had_dumper, table_oid, oid, tag, desc, section, defn,
\* drop_stmt, copy_stmt, namespace, tablespace, table_access_method, owner,
\* reserved, dependencies, offset; every read starts at the first byte of the
\* piece of the stream written for its field, and every field decoded so far
\* has the value written there.  (The latest read is compared in every state,
\* which compares every read.)
C9_CodeOrder ==
    /\ InOrder(CodeOrder)
    /\ trace # <<>> =>
         LET k == Len(trace)
             before == Flatten(SubSeq(GivenPieces, 1, k - 1))
         IN  /\ trace[k].at = cfg.int_size + 1 + Len(before)
             /\ IF k <= Len(GivenPieces)
                THEN trace[k].field = GivenPieces[k].field
                ELSE k = Len(GivenPieces) + 1 /\ trace[k].field = "id"
    /\ pc \in {CodeOrder[k] : k \in 2..Len(CodeOrder)} =>
         \A k \in 1..(Rank(CodeOrder, pc) - 1) :
            LET f == CodeOrder[k]
            IN  f \in DOMAIN NoEntry =>
                  entry[f] = PlanField(given.plans[Len(entries) + 1], f)
    /\ pc = "toc_loop" /\ entries # <<>> =>
         entries[Len(entries)] = PlanEntry(given.plans[Len(entries)])

\* A second entry with had_dumper set and one dependency has been decoded.
C9_Witness ==
    /\ pc = "toc_loop" /\ Len(entries) = 2
    /\ entries[2].had_dumper /\ entries[2].dependencies = <<Word(21)>>
    /\ entries[2].offset = PosSet(Word(77))

(***************************************************************************)
(* Archive::parse: the header, one step per field, then read_toc           *)
(***************************************************************************)
K_VERS_1_10 == <<1, 10, 0>>
K_VERS_1_15 == <<1, 15, 0>>
K_VERS_1_16 == <<1, 16, 0>>

\* "PGDMP".as_bytes()
PGDMP == <<80, 71, 68, 77, 80>>

\* a < b for tuples of three bytes: the derived ordering of Version.
VersionLess(a, b) ==
    \/ a[1] < b[1]
    \/ a[1] = b[1] /\ a[2] < b[2]
    \/ a[1] = b[1] /\ a[2] = b[2] /\ a[3] < b[3]

\* A version check whose upper bound is exclusive: the variant that
\* C2_VersionWindow must tell apart from the code.
VersionSupported_exclusive(version) ==
    ~(VersionLess(version, K_VERS_1_10) \/ ~VersionLess(version, K_VERS_1_16))

\* The negation of `version < K_VERS_1_10 || version > K_VERS_1_16`.
VersionSupported(version) ==
    ~(VersionLess(version, K_VERS_1_10) \/ VersionLess(K_VERS_1_16, version))

\* The compression methods.
Method(m, level) == [method |-> m, level |-> level]

\* CompressionMethod::try_from(u8)
CompressionOfByte(b) ==
    CASE b = 0 -> Method("None", Zero64)
      [] b = 1 -> Method("Gzip", Zero64)
      [] b = 2 -> Method("LZ4", Zero64)
      [] b = 3 -> Method("ZSTD", Zero64)
      [] OTHER -> Method("invalid", Zero64)

\* The match on the compression integer of the versions before 1.15.
CompressionOfInt(compression) ==
    IF compression = MinusOne64 THEN Method("ZSTD", Zero64)
    ELSE IF compression = Zero64 THEN Method("None", Zero64)
    ELSE IF IsSmall(compression) /\ SmallVal(compression) \in 1..9
    THEN Method("Gzip", compression)
    ELSE Method("invalid", Zero64)

\* `x as i32` of an i64: the low four bytes as a signed number.
AsI32(x) ==
    x[1] + 256 * x[2] + 65536 * x[3]
    + 16777216 * (IF x[4] >= 128 THEN x[4] - 256 ELSE x[4])

\* `x as u32` of an i64: the low four bytes.
AsU32(x) == SubSeq(x, 1, 4)

\* u < n for a u32 u and a small n.
U32Below(u, n) == u[3] = 0 /\ u[4] = 0 /\ u[1] + 256 * u[2] < n

\* The number of days of month m of year y (proleptic Gregorian calendar).
DaysIn(y, m) ==
    IF m = 2
    THEN IF (y % 4 = 0 /\ y % 100 # 0) \/ y % 400 = 0 THEN 29 ELSE 28
    ELSE IF m \in {4, 6, 9, 11} THEN 30 ELSE 31

\* No date.
NoDate == [valid |-> FALSE, e |-> "", year |-> 0, month |-> 0, day |-> 0,
           hour |-> 0, min |-> 0, sec |-> 0]

\* NaiveDate::from_ymd_opt(year, month, day).and_hms_opt(hour, min, sec) of
\* chrono: a date of the calendar with a year chrono can represent, and a
\* time of day without leap second.
DateOf(year, month, day, hour, min, sec) ==
    IF ~( /\ year >= -262143 /\ year <= 262142
          /\ U32Below(month, 13) /\ month # <<0, 0, 0, 0>>
          /\ U32Below(day, 32) /\ day # <<0, 0, 0, 0>>
          /\ day[1] <= DaysIn(year, month[1]) )
    THEN [NoDate EXCEPT !.e = "invalid creation date"]
    ELSE IF ~(U32Below(hour, 24) /\ U32Below(min, 60) /\ U32Below(sec, 60))
    THEN [NoDate EXCEPT !.e = "invalid time in creation date"]
    ELSE [valid |-> TRUE, e |-> "", year |-> year, month |-> month[1],
          day |-> day[1], hour |-> hour[1], min |-> min[1], sec |-> sec[1]]

\* The locals of Archive::parse before anything is read.
NoHeader ==
    [version |-> <<>>, compression_method |-> Method("None", Zero64),
     created_sec |-> Zero64, created_min |-> Zero64, created_hour |-> Zero64,
     created_mday |-> Zero64, created_mon |-> Zero64, created_year |-> Zero64,
     _created_isdst |-> Zero64, create_date |-> NoDate,
     database_name |-> <<>>, server_version |-> <<>>, pgdump_version |-> <<>>]

\* One read of Archive::parse: at pc = name the read gave r; a failed read or
\* a value that is not valid ends the parse, otherwise the locals become h
\* and the ReadConfig c, and the parse goes on at `next`.
HeaderRead(name, next, r, valid, msg, h, c) ==
    /\ pc = name
    /\ pos' = r.pos
    /\ trace' = Append(trace, [field |-> name, at |-> pos])
    /\ IF r.st # "ok" THEN Finish(r.st, r.e) /\ UNCHANGED <<hdr, cfg>>
       ELSE IF ~valid THEN Finish("err", msg) /\ UNCHANGED <<hdr, cfg>>
       ELSE /\ pc' = next
            /\ hdr' = h
            /\ cfg' = c
            /\ UNCHANGED outcome
    /\ UNCHANGED <<overflow_checks, data, given, num_entries, entries, entry>>
    /\ UNCHANGED <<codecVars, dataVars, useVars>>

\* An integer or string local of the header.
HeaderField(name, next, r) ==
    HeaderRead(name, next, r, TRUE, "", [hdr EXCEPT ![name] = r.val], cfg)

HeaderInt(name, next) ==
    HeaderField(name, next, read_int(data, pos, cfg.int_size, overflow_checks))

HeaderString(name, next) ==
    HeaderField(name, next, read_string(data, pos, cfg.int_size, overflow_checks))

\* A signature check that accepts every five bytes: the variant that
\* C3_SignatureAndFormat must tell apart from the code.
ReadSignature_any ==
    HeaderRead("signature", "version", read_exact(data, pos, 5), TRUE, "", hdr, cfg)

\* The five signature bytes.
ReadSignature ==
    LET r == read_exact(data, pos, 5)
    IN  HeaderRead("signature", "version", r, r.val = PGDMP,
                   "file does not start with PGDMP", hdr, cfg)

\* Three calls of read_byte, then the range check.  The version is part of
\* the error when the check fails.
ReadVersion ==
    /\ pc = "version"
    /\ LET r == read_exact(data, pos, 3)
       IN  /\ pos' = r.pos
           /\ IF r.st # "ok" THEN Finish(r.st, r.e) /\ UNCHANGED hdr
              ELSE /\ hdr' = [hdr EXCEPT !.version = r.val]
                   /\ IF VersionSupported(r.val)
                      THEN pc' = "int_size" /\ UNCHANGED outcome
                      ELSE Finish("err", "UnsupportedVersionError")
    /\ trace' = Append(trace, [field |-> "version", at |-> pos])
    /\ UNCHANGED <<overflow_checks, data, cfg, given, num_entries, entries, entry>>
    /\ UNCHANGED <<codecVars, dataVars, useVars>>

ReadIntSize ==
    LET r == read_byte(data, pos)
    IN  HeaderRead("int_size", "offset_size", r, TRUE, "", hdr,
                   [cfg EXCEPT !.int_size = r.val])

ReadOffsetSize ==
    LET r == read_byte(data, pos)
    IN  HeaderRead("offset_size", "format", r, TRUE, "", hdr,
                   [cfg EXCEPT !.offset_size = r.val])

\* The format byte: 1 = archCustom.
ReadFormat ==
    LET r == read_byte(data, pos)
    IN  HeaderRead("format", "compression_method", r, r.val = 1,
                   "file format must be 1 (custom)", hdr, cfg)

\* The compression method: a byte from version 1.15 on, an integer before.
ReadCompression ==
    LET byte == read_byte(data, pos)
        int == read_int(data, pos, cfg.int_size, overflow_checks)
        r == IF ~VersionLess(hdr.version, K_VERS_1_15) THEN byte ELSE int
        m == IF ~VersionLess(hdr.version, K_VERS_1_15)
             THEN CompressionOfByte(r.val) ELSE CompressionOfInt(r.val)
    IN  HeaderRead("compression_method", "created_sec", r, m.method # "invalid",
                   "invalid compression method",
                   [hdr EXCEPT !.compression_method = m], cfg)

ReadCreatedSec == HeaderInt("created_sec", "created_min")

ReadCreatedMin == HeaderInt("created_min", "created_hour")

ReadCreatedHour == HeaderInt("created_hour", "created_mday")

ReadCreatedMday == HeaderInt("created_mday", "created_mon")

ReadCreatedMon == HeaderInt("created_mon", "created_year")

ReadCreatedYear == HeaderInt("created_year", "_created_isdst")

\* A parse that does not consume the daylight-saving flag: the variant that
\* C16_ZeroIndexedMonth must tell apart from the code.
ReadCreatedIsdst_not_consumed ==
    HeaderRead("_created_isdst", "create_date",
               [st |-> "ok", val |-> Zero64, pos |-> pos, e |-> ""],
               TRUE, "", hdr, cfg)

ReadCreatedIsdst == HeaderInt("_created_isdst", "create_date")

\* The assembly of create_date: created_year + 1900 and created_mon + 1 in
\* i64 (a panic on overflow when the build checks, the wrapped sum when not),
\* the casts, and the two validations of chrono.  Nothing is read.
MakeCreateDate ==
    /\ pc = "create_date"
    /\ IF overflow_checks /\ ( \/ AddOverflows(hdr.created_year, Word(1900))
                               \/ AddOverflows(hdr.created_mon, Word(1)) )
       THEN Finish("panic", "attempt to add with overflow") /\ UNCHANGED hdr
       ELSE LET date == DateOf(AsI32(WrappingAdd(hdr.created_year, Word(1900))),
                               AsU32(WrappingAdd(hdr.created_mon, Word(1))),
                               AsU32(hdr.created_mday), AsU32(hdr.created_hour),
                               AsU32(hdr.created_min), AsU32(hdr.created_sec))
            IN  IF ~date.valid THEN Finish("err", date.e) /\ UNCHANGED hdr
                ELSE /\ hdr' = [hdr EXCEPT !.create_date = date]
                     /\ pc' = "database_name"
                     /\ UNCHANGED outcome
    /\ UNCHANGED <<overflow_checks, data, pos, cfg, given, trace, num_entries,
                   entries, entry>>
    /\ UNCHANGED <<codecVars, dataVars, useVars>>

ReadDatabaseName == HeaderString("database_name", "server_version")

ReadServerVersion == HeaderString("server_version", "pgdump_version")

\* After the last string comes read_toc.
ReadPgdumpVersion == HeaderString("pgdump_version", "toc_count")

\* Archive::parse, any step of the header.
ParseHeader ==
    \/ ReadSignature
    \/ ReadVersion
    \/ ReadIntSize
    \/ ReadOffsetSize
    \/ ReadFormat
    \/ ReadCompression
    \/ ReadCreatedSec
    \/ ReadCreatedMin
    \/ ReadCreatedHour
    \/ ReadCreatedMday
    \/ ReadCreatedMon
    \/ ReadCreatedYear
    \/ ReadCreatedIsdst
    \/ MakeCreateDate
    \/ ReadDatabaseName
    \/ ReadServerVersion
    \/ ReadPgdumpVersion

\* No Archive.
NoArchive == [some |-> FALSE]

\* What Archive::parse returns: Ok(Archive {..}) once read_toc has returned
\* the entries, and no Archive at any other point or outcome.
Archive ==
    IF pc = "done" /\ outcome.st = "ok"
    THEN [some |-> TRUE, version |-> hdr.version,
          compression_method |-> hdr.compression_method,
          create_date |-> hdr.create_date,
          database_name |-> hdr.database_name,
          server_version |-> hdr.server_version,
          pgdump_version |-> hdr.pgdump_version,
          toc_entries |-> entries, io_config |-> cfg]
    ELSE NoArchive

Next == ParseHeader \/ NextToc

(***************************************************************************)
(* Inputs of Archive::parse: streams built from plans of archives          *)
(***************************************************************************)
\* An integer of the header: a small one, or the largest i64.
Small(v) == [huge |-> FALSE, v |-> v]
Huge == [huge |-> TRUE, v |-> 0]

\* 2^32 + v for a v of 1..255: an integer whose low 32 bits are v.
Wide(v) == [huge |-> TRUE, v |-> v]

\* Its encoding with w magnitude bytes.
EncNum(n, w) ==
    IF n.huge
    THEN IF n.v = 0
         THEN <<0>> \o SubSeq(<<255, 255, 255, 255, 255, 255, 255, 127, 0>>, 1, w)
         ELSE <<0>> \o SubSeq(<<n.v, 0, 0, 0, 1, 0, 0, 0, 0>>, 1, w)
    ELSE EncInt(n.v, w)

\* A well-formed archive: version 1.14, 29 February 2004, one entry.
BaseArchive ==
    [signature |-> PGDMP, version |-> <<1, 14, 0>>, int_size |-> 4,
     offset_size |-> 8, format |-> 1, compression |-> -1,
     created_sec |-> Small(30), created_min |-> Small(15),
     created_hour |-> Small(12), created_mday |-> Small(29),
     created_mon |-> Small(1), created_year |-> Small(104),
     created_isdst |-> Small(0), database_name |-> Some(<<100, 98>>),
     server_version |-> Some(<<49, 52>>), pgdump_version |-> Some(<<49, 52>>),
     count |-> 1, plans |-> <<BasePlan1>>]

\* Signatures, versions around both ends of the window, and formats.
Signatures == {PGDMP, <<80, 71, 68, 77, 81>>, <<88, 71, 68, 77, 80>>}
Versions ==
    { <<1, 9, 255>>, <<1, 10, 0>>, <<1, 12, 3>>, <<1, 14, 0>>, <<1, 15, 0>>,
      <<1, 15, 9>>, <<1, 16, 0>>, <<1, 16, 1>>, <<1, 17, 0>>, <<0, 16, 0>>,
      <<2, 10, 0>>, <<2, 0, 0>> }
Formats == {0, 1, 2}

\* Archives that differ from BaseArchive in the first fields of the header.
HeadArchives ==
    { [BaseArchive EXCEPT !.signature = sg, !.version = v, !.format = fm,
                          !.compression = 0] :
        sg \in Signatures, v \in Versions, fm \in Formats }

\* Archives that differ in the widths, with and without entries.
WidthArchives ==
    { [BaseArchive EXCEPT !.int_size = w, !.offset_size = ow, !.count = c] :
        w \in {0, 1, 2, 8, 9}, ow \in {0, 1, 8, 9}, c \in {0, 1} }

\* Archives that differ in the compression field.
CompressionArchives ==
    { [BaseArchive EXCEPT !.version = v, !.compression = c] :
        v \in {<<1, 14, 0>>, <<1, 15, 0>>, <<1, 16, 0>>},
        c \in {-2, -1, 0, 1, 2, 3, 4, 9, 10} }

\* Archives that differ in the creation date.
DateArchives ==
    { [BaseArchive EXCEPT !.created_sec = Small(v)] : v \in {-1, 0, 59, 60} }
    \cup { [BaseArchive EXCEPT !.created_min = Small(v)] : v \in {0, 59, 60} }
    \cup { [BaseArchive EXCEPT !.created_hour = Small(v)] : v \in {0, 23, 24} }
    \cup { [BaseArchive EXCEPT !.created_isdst = n, !.int_size = 8] :
             n \in {Small(-1), Small(1), Huge} }
    \cup { [BaseArchive EXCEPT !.created_mon = n, !.int_size = 8] :
             n \in {Small(-1), Small(12), Huge} }
    \cup { [BaseArchive EXCEPT !.created_year = n, !.int_size = 8] :
             n \in {Small(-1900), Huge, Wide(104)} }
    \cup { [BaseArchive EXCEPT !.created_mday = n, !.int_size = 8] :
             n \in {Huge, Wide(29), Wide(32)} }
    \cup { [BaseArchive EXCEPT !.created_hour = n, !.int_size = 8] :
             n \in {Huge, Wide(12), Wide(24)} }
    \cup { [BaseArchive EXCEPT !.created_mday = Small(d), !.created_mon = Small(m),
                               !.created_year = Small(y)] :
             d \in {0, 1, 28, 29, 30, 31, 32}, m \in {0, 1, 3, 11},
             y \in {100, 101, 104, 200} }

\* Archives that differ in one of the three strings.
NameArchives ==
    UNION { { [BaseArchive EXCEPT !.database_name = t],
              [BaseArchive EXCEPT !.server_version = t],
              [BaseArchive EXCEPT !.pgdump_version = t] } :
            t \in {Absent, Some(<<>>), Some(<<255>>), Some(<<195, 169>>)} }

\* Archives that differ in the TOC.
TocArchives ==
    { [BaseArchive EXCEPT !.count = c, !.plans = ps] :
        c \in (-1)..(MaxEntries + 1),
        ps \in { BaseList(m) : m \in 0..MaxEntries }
               \cup { <<[BasePlan1 EXCEPT !.section = 5]>>,
                      <<[BasePlan1 EXCEPT !.id = -1]>>,
                      <<BasePlan1, [BasePlan2 EXCEPT !.id = BasePlan1.id]>> } }

\* Archives of every stored month, on its first and on a 31st day, with the
\* daylight-saving flag clear, set and unknown.
MonthArchives ==
    { [BaseArchive EXCEPT !.created_mon = Small(m), !.created_mday = Small(d),
                          !.created_isdst = Small(dst)] :
        m \in 0..11, d \in {1, 31}, dst \in {-1, 0, 1} }

ArchivePlans ==
    HeadArchives \cup WidthArchives \cup CompressionArchives \cup DateArchives
    \cup NameArchives \cup TocArchives \cup MonthArchives

\* The compression field as pg_dump writes it for the version.
EncCompression(a) ==
    IF ~VersionLess(a.version, K_VERS_1_15)
    THEN <<a.compression % 256>>
    ELSE EncInt(a.compression, a.int_size)

\* The encoding of an archive.
EncArchive(a) ==
    a.signature \o a.version \o <<a.int_size, a.offset_size, a.format>>
    \o EncCompression(a)
    \o EncNum(a.created_sec, a.int_size) \o EncNum(a.created_min, a.int_size)
    \o EncNum(a.created_hour, a.int_size) \o EncNum(a.created_mday, a.int_size)
    \o EncNum(a.created_mon, a.int_size) \o EncNum(a.created_year, a.int_size)
    \o EncNum(a.created_isdst, a.int_size)
    \o EncText(a.database_name, a.int_size)
    \o EncText(a.server_version, a.int_size)
    \o EncText(a.pgdump_version, a.int_size)
    \o EncToc(a.count, a.plans, a.int_size, a.offset_size)

\* Lengths at which a stream is cut: inside and after each of the first
\* fields, inside the later ones, and not at all.
KeepLengths == 0..12 \cup {20, 40, 60, 1000}

\* The first n bytes of d.
Prefix(d, n) == SubSeq(d, 1, IF n < Len(d) THEN n ELSE Len(d))

Init ==
    /\ overflow_checks \in BOOLEAN
    /\ \E a \in ArchivePlans, keep \in KeepLengths :
         /\ given = [archive |-> a, keep |-> keep]
         /\ data = Prefix(EncArchive(a), keep)
    /\ pos = 0
    /\ cfg = [int_size |-> 0, offset_size |-> 0]
    /\ pc = "signature"
    /\ hdr = NoHeader
    /\ TocStart

Spec == Init /\ [][Next]_vars

(***************************************************************************)
(* Claims about Archive::parse                                             *)
(***************************************************************************)
\* A read of field f has been made.
HasRead(f) == \E k \in 1..Len(trace) : trace[k].field = f

\* The stream starts with the signature.
SignatureOk == Len(data) >= 5 /\ SubSeq(data, 1, 5) = PGDMP

\* The Archive holds what the stream was built from.
ArchiveComplete ==
    LET a == given.archive
    IN  /\ Archive.some
        /\ Archive.version = a.version
        /\ Archive.io_config = [int_size |-> a.int_size, offset_size |-> a.offset_size]
        /\ Archive.compression_method.method \in {"None", "Gzip", "LZ4", "ZSTD"}
        /\ Archive.create_date.valid
        /\ Archive.database_name = TextOf(a.database_name)
        /\ Archive.server_version = TextOf(a.server_version)
        /\ Archive.pgdump_version = TextOf(a.pgdump_version)
        /\ Len(Archive.toc_entries) = a.count
        /\ \A i \in 1..a.count : Archive.toc_entries[i] = PlanEntry(a.plans[i])

\* The parse has ended in the way `st`, with a complete Archive if it
\* succeeded, and with no Archive and the cursor inside the stream, not
\* before the start of the read that failed, if it returned an error.
EndsWell(st) ==
    /\ st \in {"ok", "err"}
    /\ st = "ok" => ArchiveComplete
    /\ st = "err" =>
         /\ ~Archive.some
         /\ pos <= Len(data)
         /\ trace # <<>> /\ trace[Len(trace)].at <= pos

\* C1: for every input stream Archive::parse returns either an error or a
\* complete Archive; after the read that fails nothing more is consumed.
C1_ParseTotal == pc = "done" => EndsWell(outcome.st)

\* C1 for the streams on which Archive::parse returns at all.
C1_ReturnsAreComplete ==
    pc = "done" /\ outcome.st # "panic" => EndsWell(outcome.st)

\* The version triple lies in the window from 1.10.0 to 1.16.0, both included.
InWindow(v) == v[1] = 1 /\ (v[2] \in 10..15 \/ (v[2] = 16 /\ v[3] = 0))

\* C2: a version is accepted (the parse goes on to int_size) if and only if
\* it lies in the window; a version outside it ends the parse with
\* UnsupportedVersion carrying that version, with the cursor after the three
\* version bytes and int_size and offset_size not read.
C2_VersionWindow ==
    LET v == SubSeq(data, 6, 8)
    IN  /\ HasRead("int_size") => SignatureOk /\ Len(data) >= 8 /\ InWindow(v)
        /\ HasRead("version") /\ Len(data) >= 8 =>
             IF InWindow(v)
             THEN /\ pc # "version"
                  /\ hdr.version = v
                  /\ pc = "done" => HasRead("int_size")
             ELSE /\ pc = "done"
                  /\ outcome = [st |-> "err", e |-> "UnsupportedVersionError"]
                  /\ hdr.version = v
                  /\ pos = 8
                  /\ Len(trace) = 2
                  /\ cfg = [int_size |-> 0, offset_size |-> 0]

\* A version just above the window was refused, with bytes left unread.
C2_Witness ==
    /\ pc = "done" /\ outcome.e = "UnsupportedVersionError"
    /\ hdr.version = <<1, 16, 1>> /\ Len(data) > 8

\* Archives of both ends of the window were parsed.
C2_WitnessLow == Archive.some /\ Archive.version = <<1, 10, 0>>
C2_WitnessHigh == Archive.some /\ Archive.version = <<1, 16, 0>>

\* C3: an Archive is returned only if the first five bytes are PGDMP and the
\* eleventh byte, the format flag, is 1; another signature ends the parse
\* before a version byte is read, another format flag ends it before the
\* compression field is read.
C3_SignatureAndFormat ==
    /\ Archive.some => SignatureOk /\ Len(data) >= 11 /\ data[11] = 1
    /\ HasRead("signature") /\ ~SignatureOk =>
         /\ pc = "done" /\ outcome.st = "err"
         /\ Len(data) >= 5 =>
              outcome.e = "file does not start with PGDMP" /\ pos = 5
         /\ Len(trace) = 1 /\ hdr.version = <<>>
    /\ HasRead("format") /\ Len(data) >= 11 /\ data[11] # 1 =>
         /\ pc = "done"
         /\ outcome = [st |-> "err", e |-> "file format must be 1 (custom)"]
         /\ pos = 11
         /\ ~HasRead("compression_method")

\* A format flag of 2 was refused, with bytes left unread.
C3_Witness ==
    /\ pc = "done" /\ outcome.e = "file format must be 1 (custom)"
    /\ data[11] = 2 /\ Len(data) > 11 /\ pos = 11

\* A signature that differs in its last byte was refused.
C3_WitnessSignature ==
    /\ pc = "done" /\ outcome.e = "file does not start with PGDMP"
    /\ Len(data) > 5 /\ SubSeq(data, 1, 4) = SubSeq(PGDMP, 1, 4)

(***************************************************************************)
(* DataReader: the chunks of a data block                                  *)
(***************************************************************************)
\* Bounds: chunks of a block, bytes of a chunk, bytes of a caller's buffer.
MaxChunks == 2
MaxChunkLen == 3
MaxBuf == 3

\* A reader whose Take starts with a byte to give: the variant that
\* C17_OwnHandles must tell apart from the code.
DataReader_new_with_limit(int_size) ==
    [int_size |-> int_size, limit |-> <<1, 0, 0, 0, 0, 0, 0, 0>>, eof |-> FALSE]

\* DataReader::new(fd, int_size): the Take starts with limit 0.
DataReader_new(int_size) == [int_size |-> int_size, limit |-> Zero64, eof |-> FALSE]

\* A Take that lets a read run past its limit: the variant that
\* C10_Concatenation must tell apart from the code.
TakeMax_unlimited(n, limit) == n

\* Take::read: the number of bytes asked of the file for a buffer of n bytes.
TakeMax(n, limit) == IF IsSmall(limit) /\ SmallVal(limit) < n THEN SmallVal(limit) ELSE n

\* The numbers of bytes File::read may return when asked for max bytes at
\* cursor p: 0 at the end of the file, otherwise at least one byte.
FileRead(d, p, max) ==
    IF p >= Len(d) \/ max = 0 THEN {0}
    ELSE 1..(IF Len(d) - p < max THEN Len(d) - p ELSE max)

\* The result of a read call.
ReadResult(st, n, e, exhausted) ==
    [st |-> st, n |-> n, e |-> e, exhausted |-> exhausted]

\* self.inner.read(buf) with the Take's limit at `limit`: k bytes are returned.
TakeRead(n, limit) ==
    \E k \in FileRead(data, pos, TakeMax(n, limit)) :
       /\ pos' = pos + k
       /\ out' = out \o SubSeq(data, pos + 1, pos + k)
       /\ reader' = [reader EXCEPT
                       !.limit = WrappingAdd(limit, WrappingNeg(Word(k)))]
       /\ last' = ReadResult("ok", k, "", FALSE)

\* DataReader::read with a buffer of n bytes.
\* At limit 0 the Take is given int_size + 1 bytes for the chunk length; a
\* failed read_int leaves it with the bytes it did not consume.
Read(n) ==
    /\ pc = "reading"
    /\ IF reader.eof
       THEN /\ last' = ReadResult("ok", 0, "", TRUE)
            /\ UNCHANGED <<pos, out, reader>>
       ELSE IF reader.limit = Zero64
       THEN LET l == read_int(data, pos, reader.int_size, overflow_checks)
            IN  IF l.st # "ok"
                THEN /\ pos' = l.pos
                     /\ reader' = [reader EXCEPT
                                     !.limit = Word(reader.int_size + 1 - (l.pos - pos))]
                     /\ last' = ReadResult(l.st, 0, l.e, FALSE)
                     /\ UNCHANGED out
                ELSE IF l.val = Zero64
                THEN /\ pos' = l.pos
                     /\ reader' = [reader EXCEPT !.eof = TRUE]
                     /\ last' = ReadResult("ok", 0, "", FALSE)
                     /\ UNCHANGED out
                ELSE \E k \in FileRead(data, l.pos, TakeMax(n, l.val)) :
                       /\ pos' = l.pos + k
                       /\ out' = out \o SubSeq(data, l.pos + 1, l.pos + k)
                       /\ reader' = [reader EXCEPT
                                       !.limit = WrappingAdd(l.val, WrappingNeg(Word(k)))]
                       /\ last' = ReadResult("ok", k, "", FALSE)
       ELSE TakeRead(n, reader.limit)
    /\ UNCHANGED <<overflow_checks, data, cfg, pc, given, hdr>>
    /\ UNCHANGED <<codecVars, tocVars, useVars>>

\* The caller reads with buffers of 1 to MaxBuf bytes.
NextData == \E n \in 1..MaxBuf : Read(n)

(***************************************************************************)
(* Inputs of the DataReader: well-formed data blocks                       *)
(***************************************************************************)
\* The payload of the i-th chunk, n bytes; bytes 0 and 1 look like prefixes.
Payload(i, n) == SubSeq(<<0, 10 + i, 1, 0, 20 + i, 1>>, 1, n)

\* The blocks: up to MaxChunks chunks of 1 to MaxChunkLen bytes each.
Blocks ==
    UNION { [1..m -> 1..MaxChunkLen] : m \in 0..MaxChunks }

RECURSIVE EncChunks(_, _, _)
\* Chunks i.. of block b: each a length and its payload.
EncChunks(b, i, w) ==
    IF i > Len(b) THEN <<>>
    ELSE EncInt(b[i], w) \o Payload(i, b[i]) \o EncChunks(b, i + 1, w)

RECURSIVE Payloads(_, _)
\* The payloads of chunks i.. of block b, concatenated.
Payloads(b, i) ==
    IF i > Len(b) THEN <<>> ELSE Payload(i, b[i]) \o Payloads(b, i + 1)

\* The block header read_data consumes before it makes the reader: the
\* block type Data and the id.
BlockHeader(w) == <<1>> \o EncInt(5, w)

\* What follows the block in the file.
Tails == {<<>>, <<0, 3, 0, 0, 0, 9, 9, 9>>}

InitData ==
    /\ overflow_checks \in BOOLEAN
    /\ \E w \in {1, 4}, b \in Blocks, tail \in Tails :
         /\ given = [block |-> b, tail |-> tail]
         /\ data = BlockHeader(w) \o EncChunks(b, 1, w) \o EncInt(0, w) \o tail
         /\ pos = Len(BlockHeader(w))
         /\ cfg = [int_size |-> w, offset_size |-> 8]
         /\ reader = DataReader_new(w)
    /\ out = <<>>
    /\ last = ReadResult("none", 0, "", FALSE)
    /\ cursors = <<>>
    /\ seeks = <<>>
    /\ readers = <<>>
    /\ opened = <<>>
    /\ found = <<>>
    /\ pc = "reading"
    /\ hdr = <<>>
    /\ op = "none"
    /\ ret = NoRet
    /\ num_entries = Zero64
    /\ entries = <<>>
    /\ entry = <<>>
    /\ trace = <<>>
    /\ outcome = NoOutcome

SpecData == InitData /\ [][NextData]_vars

(***************************************************************************)
(* Claims about the DataReader                                             *)
(***************************************************************************)
\* a is a prefix of b.
IsPrefix(a, b) == Len(a) <= Len(b) /\ a = SubSeq(b, 1, Len(a))

\* C10: for a block of chunks of positive length ended by a chunk of length
\* 0, read with buffers of any sizes from 1 on, the bytes returned so far are
\* the first bytes of the concatenated payloads and no read fails; a read
\* returns 0 bytes only once all payloads have been returned, having consumed
\* the zero length and nothing after it; and every read after that returns 0
\* bytes without error.
C10_Concatenation ==
    LET payloads == Payloads(given.block, 1)
    IN  /\ IsPrefix(out, payloads)
        /\ last.st \in {"none", "ok"}
        /\ last.st = "ok" /\ last.n = 0 => reader.eof
        /\ reader.eof =>
             /\ out = payloads
             /\ pos = Len(data) - Len(given.tail)
        /\ last.exhausted => last.st = "ok" /\ last.n = 0

\* Two chunks were read to the end, and read once more after that, in a file
\* that goes on after the block.
C10_Witness ==
    /\ Len(given.block) = 2 /\ given.block[1] = 3 /\ given.tail # <<>>
    /\ reader.eof /\ last.exhausted
    /\ out = Payloads(given.block, 1)

(***************************************************************************)
(* Claims about the compression field and the creation date                *)
(***************************************************************************)
\* The header is of a version before 1.15 and the stream holds the whole of
\* its compression integer, of a width read_int decodes.
LegacyCompressionRead ==
    /\ HasRead("compression_method")
    /\ VersionLess(hdr.version, K_VERS_1_15)
    /\ cfg.int_size \in 1..8
    /\ Len(data) >= 11 + cfg.int_size + 1

\* The parse ended at the compression field.
FailedAtCompression ==
    pc = "done" /\ trace[Len(trace)].field = "compression_method"

\* C15: for a version before 1.15 the compression method comes from one
\* integer v: None for v = 0 and Gzip with level v for every other v,
\* negative ones included, and no v makes the parse fail.
C15_LegacyCompression ==
    LegacyCompressionRead =>
      LET v == given.archive.compression
      IN  /\ ~FailedAtCompression
          /\ hdr.compression_method =
               IF v = 0 THEN Method("None", Zero64) ELSE Method("Gzip", IntWord(v))

\* C15 for the values 0 to 9, and what the code does with the others: -1 is
\* ZSTD and every other value ends the parse.
C15_LegacyCompressionAsCoded ==
    LegacyCompressionRead =>
      LET v == given.archive.compression
      IN  IF v \in 0..9
          THEN /\ ~FailedAtCompression
               /\ hdr.compression_method =
                    IF v = 0 THEN Method("None", Zero64) ELSE Method("Gzip", IntWord(v))
          ELSE IF v = -1
          THEN ~FailedAtCompression /\ hdr.compression_method = Method("ZSTD", Zero64)
          ELSE FailedAtCompression /\ outcome.e = "invalid compression method"

\* The six stored fields of the date are small numbers.
StoredDateSmall ==
    LET a == given.archive
    IN  ~( \/ a.created_sec.huge \/ a.created_min.huge \/ a.created_hour.huge
           \/ a.created_mday.huge \/ a.created_mon.huge \/ a.created_year.huge )

\* The length of the header up to and including the daylight-saving flag.
DateEnd == 11 + Len(EncCompression(given.archive)) + 7 * (given.archive.int_size + 1)

\* C16: the stored month is 0-indexed: a stored month m of 0..11 gives the
\* calendar month m + 1 (with a day every month has and a valid time the
\* date is accepted), the year is the stored year plus 1900, and the
\* daylight-saving flag is consumed, the next field starting right after it,
\* and changes nothing in the date.
C16_ZeroIndexedMonth ==
    LET a == given.archive
    IN  /\ hdr.create_date.valid /\ StoredDateSmall =>
             /\ a.created_mon.v \in 0..11
             /\ hdr.create_date.month = a.created_mon.v + 1
             /\ hdr.create_date.year = a.created_year.v + 1900
             /\ hdr.create_date.day = a.created_mday.v
             /\ hdr.create_date.hour = a.created_hour.v
             /\ hdr.create_date.min = a.created_min.v
             /\ hdr.create_date.sec = a.created_sec.v
        /\ /\ StoredDateSmall /\ a.created_mon.v \in 0..11
           /\ a.created_mday.v \in 1..28 /\ a.created_year.v \in 0..200
           /\ a.created_hour.v \in 0..23 /\ a.created_min.v \in 0..59
           /\ a.created_sec.v \in 0..59
           => ~(pc = "done" /\ outcome.e \in {"invalid creation date",
                                              "invalid time in creation date"})
        /\ \A k \in 1..Len(trace) :
             trace[k].field = "database_name" => trace[k].at = DateEnd
        /\ Archive.some => Archive.database_name = TextOf(a.database_name)

\* An archive of stored month 0 with the daylight-saving flag set was parsed:
\* its date is of January.
C16_Witness ==
    /\ Archive.some /\ Archive.create_date.month = 1
    /\ given.archive.created_mon = Small(0)
    /\ given.archive.created_isdst = Small(1)

\* An archive of stored month 11 was parsed: its date is of 31 December.
C16_WitnessDecember ==
    /\ Archive.some /\ Archive.create_date.month = 12
    /\ Archive.create_date.day = 31

(***************************************************************************)
(* Claims about the dependency list                                        *)
(***************************************************************************)
\* The ids the plan's dependency strings stand for.
PlanDependencies(p) == [i \in 1..Len(p.deps) |-> IntWord(p.deps[i].val)]

\* An entry has just been decoded.
EntryDecoded == pc = "toc_loop" /\ entries # <<>>

\* C20: when an entry is decoded its dependencies are the ids of the strings
\* before the first empty string, in their order and without the terminator,
\* every one of them non-negative; an entry with a dependency string that is
\* no non-negative decimal integer is not decoded.
C20_Dependencies ==
    EntryDecoded =>
      LET p == given.plans[Len(entries)]
          e == entries[Len(entries)]
      IN  /\ e.dependencies = PlanDependencies(p)
          /\ \A i \in 1..Len(e.dependencies) : ~IsNeg64(e.dependencies[i])
          /\ \A i \in 1..Len(p.deps) : p.deps[i].ok /\ p.deps[i].val >= 0

\* C20 without the sign: the dependencies are the ids of the strings before
\* the terminator, in their order, and an entry with a string that is no
\* decimal integer is not decoded.
C20_DependenciesAsCoded ==
    EntryDecoded =>
      LET p == given.plans[Len(entries)]
          e == entries[Len(entries)]
      IN  /\ e.dependencies = PlanDependencies(p)
          /\ \A i \in 1..Len(p.deps) : p.deps[i].ok

(***************************************************************************)
(* Archive::find_toc_entry                                                 *)
(***************************************************************************)
RECURSIVE FindFrom(_, _, _, _, _)
\* Iterator::find over toc_entries from index i on: the index of the first
\* entry the closure accepts, 0 for None.
FindFrom(toc_entries, i, section, desc, tag) ==
    IF i > Len(toc_entries) THEN 0
    ELSE IF /\ toc_entries[i].section = section
            /\ toc_entries[i].desc = desc
            /\ toc_entries[i].tag = tag
    THEN i
    ELSE FindFrom(toc_entries, i + 1, section, desc, tag)

\* A search that does not compare the tag: the variant that C14_FindFirst
\* must tell apart from the code.
find_toc_entry_any_tag(toc_entries, section, desc, tag) ==
    FindFrom([i \in 1..Len(toc_entries) |-> [toc_entries[i] EXCEPT !.tag = tag]],
             1, section, desc, tag)

\* Archive::find_toc_entry: Some(&toc_entries[index]), or None as index 0.
find_toc_entry(toc_entries, section, desc, tag) ==
    FindFrom(toc_entries, 1, section, desc, tag)

\* No call of find_toc_entry yet.
NotFound == [called |-> FALSE, section |-> "None", desc |-> <<>>, tag |-> <<>>,
             index |-> 0]

\* The sections, descriptions and tags of the searches; one tag and one
\* description are the first bytes of the other.
FindSections == {"PreData", "Data"}
FindDescs == {<<84>>, <<84, 68>>}
FindTags == {<<97>>, <<97, 98>>}

\* The i-th entry of a list, with its own id.
FindEntry(i, section, desc, tag) ==
    [NoEntry EXCEPT !.id = Word(i), !.section = section, !.desc = desc, !.tag = tag]

\* Lists of up to MaxEntries + 1 entries.
FindLists ==
    UNION { { [i \in 1..m |-> FindEntry(i, sc[i], ds[i], tg[i])] :
                sc \in [1..m -> FindSections], ds \in [1..m -> FindDescs],
                tg \in [1..m -> FindTags] } :
            m \in 0..(MaxEntries + 1) }

InitFind ==
    /\ overflow_checks = TRUE
    /\ entries \in FindLists
    /\ found = NotFound
    /\ pc = "find"
    /\ data = <<>>
    /\ pos = 0
    /\ cfg = [int_size |-> 4, offset_size |-> 8]
    /\ given = <<>>
    /\ hdr = NoHeader
    /\ op = "none"
    /\ ret = NoRet
    /\ num_entries = Zero64
    /\ entry = NoEntry
    /\ trace = <<>>
    /\ outcome = NoOutcome
    /\ reader = <<>>
    /\ out = <<>>
    /\ last = <<>>
    /\ cursors = <<>>
    /\ seeks = <<>>
    /\ readers = <<>>
    /\ opened = <<>>

\* archive.find_toc_entry(section, desc, tag)
FindTocEntry(section, desc, tag) ==
    /\ pc \in {"find", "use"}
    /\ found' = [called |-> TRUE, section |-> section, desc |-> desc,
                 tag |-> tag,
                 index |-> find_toc_entry(entries, section, desc, tag)]
    /\ UNCHANGED <<overflow_checks, data, pos, cfg, pc, given, hdr, cursors,
                   seeks, readers, opened>>
    /\ UNCHANGED <<codecVars, tocVars, dataVars>>

\* A caller's call of find_toc_entry.
CallFind ==
    \E section \in FindSections, desc \in FindDescs, tag \in FindTags :
      FindTocEntry(section, desc, tag)

SpecFind == InitFind /\ [][CallFind]_vars

\* The indices of the entries that equal the arguments of the search in
\* section, desc and tag.
Matching ==
    { i \in 1..Len(entries) :
        /\ entries[i].section = found.section
        /\ entries[i].desc = found.desc
        /\ entries[i].tag = found.tag }

\* C14: find_toc_entry returns the entry of the smallest index that equals
\* the arguments in section, desc and tag, and None exactly when no entry
\* equals them in all three.
C14_FindFirst ==
    found.called =>
      /\ found.index = 0 <=> Matching = {}
      /\ found.index # 0 =>
           /\ found.index \in Matching
           /\ \A j \in Matching : found.index <= j

\* The second of three entries was found: the first differs in the tag only
\* and the third equals the second.
C14_Witness ==
    /\ found.called /\ found.index = 2 /\ Len(entries) = 3
    /\ 3 \in Matching
    /\ entries[1].section = found.section /\ entries[1].desc = found.desc

\* Nothing was found in a list whose entries each differ in one argument.
C14_WitnessNone ==
    /\ found.called /\ found.index = 0 /\ Len(entries) = 3
    /\ \A i \in 1..3 : entries[i].section = found.section

(***************************************************************************)
(* Archive::read_data and the readers it hands out                         *)
(***************************************************************************)
\* An empty reader that is not at its end: the variant that C11_NoSeekNoRead
\* must tell apart from the code.
DataReader_empty_not_eof == [int_size |-> 0, limit |-> Zero64, eof |-> FALSE]

\* DataReader::empty(fd)
DataReader_empty == [int_size |-> 0, limit |-> Zero64, eof |-> TRUE]

\* No reader was made.
NoReader == [int_size |-> 0, limit |-> Zero64, eof |-> FALSE]

\* The result of ReadConfig::read_data: the cursor it leaves, the number of
\* seek calls it made and, when st is "ok", the reader.
OpenResult(st, e, p, sought, rd) ==
    [st |-> st, e |-> e, pos |-> p, seeks |-> sought, rd |-> rd]

\* A reader made right after the block type, its id not yet read: the
\* variant that C12_BlockType must tell apart from the code.
OpenBlock_keeps_id(block_type, id, p, at, int_size) ==
    IF id.st # "ok"
    THEN OpenResult(id.st, IF id.st = "panic" THEN id.e ELSE "IOError", id.pos, 1,
                    NoReader)
    ELSE IF block_type = 3
    THEN OpenResult("err", "BlobNotSupported", id.pos, 1, NoReader)
    ELSE OpenResult("ok", "", p, 1, DataReader_new(int_size))

\* let _id = self.read_int(f)?; match block_type { Blob => .., Data => .. }
\* for a block type read at cursor `at`; id is the result of read_int.
OpenBlock(block_type, id, p, at, int_size) ==
    IF id.st # "ok"
    THEN OpenResult(id.st, IF id.st = "panic" THEN id.e ELSE "IOError", id.pos, 1,
                    NoReader)
    ELSE IF block_type = 3
    THEN OpenResult("err", "BlobNotSupported", id.pos, 1, NoReader)
    ELSE OpenResult("ok", "", id.pos, 1, DataReader_new(int_size))

\* ReadConfig::read_data(f, o) on a file d whose cursor is at p.
\* File::seek to an offset above i64::MAX fails and leaves the cursor; the
\* offsets of the model are below 2^24 or above i64::MAX.
ReadConfig_read_data(d, p, config, o, checks) ==
    CASE o.kind = "NoData" -> OpenResult("ok", "", p, 0, DataReader_empty)
      [] o.kind = "PosNotSet" -> OpenResult("err", "NoDataPresent", p, 0, NoReader)
      [] o.kind = "Unknown" -> OpenResult("err", "NoDataPresent", p, 0, NoReader)
      [] o.kind = "PosSet" ->
           IF IsNeg64(o.at)
           THEN OpenResult("err", "IOError", p, 1, NoReader)
           ELSE LET at == SmallVal(o.at)
                    b == read_byte(d, at)
                IN  IF b.st # "ok"
                    THEN OpenResult("err", "IOError", b.pos, 1, NoReader)
                    ELSE IF b.val \notin {1, 3}
                    THEN OpenResult("err", "InvalidData", b.pos, 1, NoReader)
                    ELSE OpenBlock(b.val,
                                   read_int(d, b.pos, config.int_size, checks),
                                   b.pos, at, config.int_size)

\* The match on compression_method gives the same answers for LZ4 as for
\* None: the variant that C13_Lz4AfterOpen must tell apart from the code.
WrapReader_lz4_plain(method, r) ==
    [io |-> r, st |-> "ok", e |-> "", wrap |-> "none"]

\* match self.compression_method, for a reader r that was opened.
WrapReader(method, r) ==
    CASE method.method = "None" -> [io |-> r, st |-> "ok", e |-> "", wrap |-> "none"]
      [] method.method = "ZSTD" -> [io |-> r, st |-> "ok", e |-> "", wrap |-> "ZlibDecoder"]
      [] method.method = "Gzip" -> [io |-> r, st |-> "ok", e |-> "", wrap |-> "GzDecoder"]
      [] OTHER -> [io |-> r, st |-> "err", e |-> "CompressionMethodNotSupported",
                   wrap |-> "none"]

\* A read_data that opens the block with an int_size of 1, whatever the
\* header said: the variant that C23_ArchiveFrame must tell apart from the
\* code.
Archive_read_data_own_width(d, p, config, method, o, checks) ==
    LET r == ReadConfig_read_data(d, p, [config EXCEPT !.int_size = 1], o, checks)
    IN  IF r.st # "ok"
        THEN [io |-> r, st |-> r.st, e |-> r.e, wrap |-> "none"]
        ELSE WrapReader(method, r)

\* Archive::read_data(f, entry): io is the result of io_config.read_data and
\* st, e the result of the call.
Archive_read_data(d, p, config, method, o, checks) ==
    LET r == ReadConfig_read_data(d, p, config, o, checks)
    IN  IF r.st # "ok"
        THEN [io |-> r, st |-> r.st, e |-> r.e, wrap |-> "none"]
        ELSE WrapReader(method, r)

\* A read that forgets that the block has ended: the variant that
\* C18_ForwardOnly must tell apart from the code.
ReadAtEof_reads_on(rd, d, p, n, checks) ==
    { [rd |-> rd, pos |-> p + k, bytes |-> SubSeq(d, p + 1, p + k),
       last |-> ReadResult("ok", k, "", TRUE)] : k \in FileRead(d, p, n) }

\* if self.eof { return Ok(0); }
ReadAtEof(rd, d, p, n, checks) ==
    { [rd |-> rd, pos |-> p, bytes |-> <<>>, last |-> ReadResult("ok", 0, "", TRUE)] }

\* A Take that returns the bytes before the cursor it reads at: the variant
\* that C19_SharedCursor must tell apart from the code.
TakeOutcomes_before_cursor(rd, d, p, n, limit) ==
    { [rd |-> [rd EXCEPT !.limit = WrappingAdd(limit, WrappingNeg(Word(k)))],
       pos |-> p + k, bytes |-> SubSeq(d, p, p + k - 1),
       last |-> ReadResult("ok", k, "", FALSE)] :
      k \in FileRead(d, p, TakeMax(n, limit)) }

\* self.inner.read(buf) at cursor p with the Take's limit at `limit`.
TakeOutcomes(rd, d, p, n, limit) ==
    { [rd |-> [rd EXCEPT !.limit = WrappingAdd(limit, WrappingNeg(Word(k)))],
       pos |-> p + k, bytes |-> SubSeq(d, p + 1, p + k),
       last |-> ReadResult("ok", k, "", FALSE)] :
      k \in FileRead(d, p, TakeMax(n, limit)) }

\* DataReader::read with a buffer of n bytes, on a file d whose cursor is at
\* p: the reader, the cursor, the bytes returned and the result afterwards.
DataReader_read(rd, d, p, n, checks) ==
    IF rd.eof THEN ReadAtEof(rd, d, p, n, checks)
    ELSE IF rd.limit = Zero64
    THEN LET l == read_int(d, p, rd.int_size, checks)
         IN  IF l.st # "ok"
             THEN { [rd |-> [rd EXCEPT
                               !.limit = Word(rd.int_size + 1 - (l.pos - p))],
                     pos |-> l.pos, bytes |-> <<>>,
                     last |-> ReadResult(l.st, 0, l.e, FALSE)] }
             ELSE IF l.val = Zero64
             THEN { [rd |-> [rd EXCEPT !.eof = TRUE], pos |-> l.pos,
                     bytes |-> <<>>, last |-> ReadResult("ok", 0, "", FALSE)] }
             ELSE TakeOutcomes(rd, d, l.pos, n, l.val)
    ELSE TakeOutcomes(rd, d, p, n, rd.limit)

\* The file handles of the caller.
Handles == {1, 2}

\* Bound: a reader is read until it has returned this many bytes.
MaxOut == 4

\* archive.read_data(&mut f, &toc_entries[i]) on the handle h.
ReadData(h, i) ==
    /\ pc = "use"
    /\ LET r == Archive_read_data(data, cursors[h], cfg, hdr.compression_method,
                                  entries[i].offset, overflow_checks)
       IN  /\ cursors' = [cursors EXCEPT ![h] = r.io.pos]
           /\ seeks' = [seeks EXCEPT ![h] = @ + r.io.seeks]
           /\ opened' = Append(opened,
                               [handle |-> h, entry |-> i,
                                io |-> [st |-> r.io.st, e |-> r.io.e],
                                st |-> r.st, e |-> r.e,
                                before |-> cursors[h], after |-> r.io.pos,
                                seeks |-> r.io.seeks])
           /\ readers' = IF r.st = "ok"
                         THEN Append(readers,
                                     [handle |-> h, entry |-> i, wrap |-> r.wrap,
                                      rd |-> r.io.rd, out |-> <<>>, took |-> 0,
                                      last |-> ReadResult("none", 0, "", FALSE)])
                         ELSE readers
           /\ pc' = IF r.st = "panic" THEN "panicked" ELSE pc
    /\ UNCHANGED <<overflow_checks, data, pos, cfg, given, hdr, found>>
    /\ UNCHANGED <<codecVars, tocVars, dataVars>>

\* A read of the k-th reader with a buffer of n bytes, by the caller or by
\* the decoder that wraps the reader; the reader's file is a duplicate of
\* the handle it was opened on and moves that handle's cursor.
ReaderRead(k, n) ==
    /\ pc = "use"
    /\ k \in 1..Len(readers)
    /\ Len(readers[k].out) < MaxOut
    /\ LET h == readers[k].handle
       IN  \E o \in DataReader_read(readers[k].rd, data, cursors[h], n,
                                     overflow_checks) :
             /\ cursors' = [cursors EXCEPT ![h] = o.pos]
             /\ readers' = [readers EXCEPT
                              ![k].rd = o.rd,
                              ![k].out = @ \o o.bytes,
                              ![k].took = o.pos - cursors[h],
                              ![k].last = o.last]
             /\ pc' = IF o.last.st = "panic" THEN "panicked" ELSE pc
    /\ UNCHANGED <<overflow_checks, data, pos, cfg, given, hdr, found, seeks,
                   opened>>
    /\ UNCHANGED <<codecVars, tocVars, dataVars>>

\* The caller opens data on a handle it has not used before.
OpenOwn ==
    /\ \E h \in Handles, i \in 1..Len(entries) :
         /\ \A c \in 1..Len(opened) : opened[c].handle # h
         /\ ReadData(h, i)

\* The caller opens data on one and the same handle, as often as OpenOwn
\* can open data on handles of their own.
OpenShared ==
    /\ Len(opened) < Cardinality(Handles)
    /\ \E i \in 1..Len(entries) : ReadData(1, i)

\* The readers are read with buffers of 1 to MaxBuf bytes.
ReadSome == \E k \in 1..Len(readers), n \in 1..MaxBuf : ReaderRead(k, n)

NextUse == OpenOwn \/ ReadSome

NextShared == OpenShared \/ ReadSome

(***************************************************************************)
(* Inputs of read_data: a file of blocks and the entries that point at it  *)
(***************************************************************************)
\* The bytes of the file before its first block.
Lead == <<9, 9, 9>>

\* A block: its type, its id and its chunks, ended by a chunk of length 0.
\* The payloads hold bytes that look like lengths and block types.
BlockA(w) ==
    <<1>> \o EncInt(5, w) \o EncInt(2, w) \o <<65, 1>> \o EncInt(1, w) \o <<67>>
    \o EncInt(0, w)
BlockB(w) == <<1>> \o EncInt(6, w) \o EncInt(2, w) \o <<97, 0>> \o EncInt(0, w)
BlockOf(t, w) == <<t>> \o EncInt(7, w) \o EncInt(1, w) \o <<98>> \o EncInt(0, w)

\* The block types of the file besides the two data blocks, in file order.
OtherTypes == <<3, 2, 0, 255>>

RECURSIVE OtherBlocks(_, _)
OtherBlocks(i, w) ==
    IF i > Len(OtherTypes) THEN <<>>
    ELSE BlockOf(OtherTypes[i], w) \o OtherBlocks(i + 1, w)

\* The file: the blocks, then a blob type byte without an id.
UseFile(w) == Lead \o BlockA(w) \o BlockB(w) \o OtherBlocks(1, w) \o <<3>>

\* What the file holds for an entry: the block type (-1 for no block), the
\* offset of the block, of its first chunk length and of the byte after its
\* last chunk length, and its payload.
Block(t, at, first, end, payload) ==
    [type |-> t, at |-> at, first |-> first, end |-> end, payload |-> payload]
NoBlock == Block(-1, 0, 0, 0, <<>>)

\* The offset of the i-th other block.
OtherAt(i, w) == Len(Lead \o BlockA(w) \o BlockB(w)) + (i - 1) * Len(BlockOf(0, w))

\* An offset above i64::MAX.
FarOffset == <<0, 0, 0, 0, 0, 0, 0, 128>>

\* The entries of the archive: every Offset variant, the two data blocks,
\* the other blocks, the last byte of the file, an offset past the end of
\* the file and one File::seek refuses.
UseOffsets(w) ==
    <<Unknown, PosNotSet, NoData,
      PosSet(Word(Len(Lead))), PosSet(Word(Len(Lead \o BlockA(w)))),
      PosSet(Word(OtherAt(1, w))), PosSet(Word(OtherAt(2, w))),
      PosSet(Word(OtherAt(3, w))), PosSet(Word(OtherAt(4, w))),
      PosSet(Word(Len(UseFile(w)) - 1)), PosSet(Word(Len(UseFile(w)) + 2)),
      PosSet(FarOffset)>>

RECURSIVE UseEntries(_, _)
\* Entries i.. of the archive, one for each offset.
UseEntries(offsets, i) ==
    IF i > Len(offsets) THEN <<>>
    ELSE <<[NoEntry EXCEPT !.id = Word(i), !.section = "Data",
                           !.desc = <<84, 68>>,
                           !.tag = IF i % 2 = 0 THEN <<97>> ELSE <<97, 98>>,
                           !.offset = offsets[i]]>>
         \o UseEntries(offsets, i + 1)

\* The block of the i-th other type.
OtherBlock(i, w) ==
    Block(OtherTypes[i], OtherAt(i, w), OtherAt(i, w) + 1 + Len(EncInt(7, w)),
          OtherAt(i + 1, w), <<98>>)

\* The blocks of the entries.
UseBlocks(w) ==
    <<NoBlock, NoBlock, NoBlock,
      Block(1, Len(Lead), Len(Lead) + 1 + Len(EncInt(5, w)),
            Len(Lead \o BlockA(w)), <<65, 1, 67>>),
      Block(1, Len(Lead \o BlockA(w)),
            Len(Lead \o BlockA(w)) + 1 + Len(EncInt(6, w)),
            Len(Lead \o BlockA(w) \o BlockB(w)), <<97, 0>>),
      OtherBlock(1, w), OtherBlock(2, w), OtherBlock(3, w), OtherBlock(4, w),
      NoBlock, NoBlock, NoBlock>>

\* The compression methods of the archive.
UseMethods ==
    {Method("None", Zero64), Method("Gzip", Word(6)), Method("LZ4", Zero64),
     Method("ZSTD", Zero64)}

InitUse ==
    /\ overflow_checks \in BOOLEAN
    /\ \E w \in {0, 1, 4}, m \in UseMethods :
         /\ data = UseFile(w)
         /\ cfg = [int_size |-> w, offset_size |-> 8]
         /\ hdr = [NoHeader EXCEPT !.compression_method = m]
         /\ entries = UseEntries(UseOffsets(w), 1)
         /\ given = [blocks |-> UseBlocks(w)]
    /\ cursors = [h \in Handles |-> h]
    /\ seeks = [h \in Handles |-> 0]
    /\ readers = <<>>
    /\ opened = <<>>
    /\ found = NotFound
    /\ pc = "use"
    /\ pos = 0
    /\ op = "none"
    /\ ret = NoRet
    /\ num_entries = Zero64
    /\ entry = NoEntry
    /\ trace = <<>>
    /\ outcome = NoOutcome
    /\ reader = <<>>
    /\ out = <<>>
    /\ last = <<>>

\* Every read_data call is made on a file handle of its own.
SpecUse == InitUse /\ [][NextUse]_vars

\* Every read_data call is made on the same handle, also while a reader of
\* an earlier call is in use.
SpecShared == InitUse /\ [][NextShared]_vars

(***************************************************************************)
(* Claims about read_data                                                  *)
(***************************************************************************)
\* The Offset of the entry of a read_data call or of a reader.
OffsetOf(c) == entries[c.entry].offset

\* C11: a read_data call for an entry whose offset is not PosSet makes no
\* seek call and leaves the cursor of the file where it was; for Unknown and
\* PosNotSet it fails with NoDataPresent, for NoData ReadConfig::read_data
\* returns a reader, and every read of that reader returns 0 bytes without
\* an error and without taking a byte from the file.
C11_NoSeekNoRead ==
    /\ \A c \in 1..Len(opened) :
         OffsetOf(opened[c]).kind # "PosSet" =>
           /\ opened[c].seeks = 0
           /\ opened[c].after = opened[c].before
           /\ OffsetOf(opened[c]).kind \in {"Unknown", "PosNotSet"} =>
                /\ opened[c].io = [st |-> "err", e |-> "NoDataPresent"]
                /\ opened[c].st = "err" /\ opened[c].e = "NoDataPresent"
           /\ OffsetOf(opened[c]).kind = "NoData" => opened[c].io.st = "ok"
    /\ \A k \in 1..Len(readers) :
         OffsetOf(readers[k]).kind = "NoData" =>
           /\ readers[k].rd.eof
           /\ readers[k].out = <<>>
           /\ readers[k].took = 0
           /\ readers[k].last.st \in {"none", "ok"}
           /\ readers[k].last.n = 0

\* A call for a PosNotSet entry failed, then a reader for a NoData entry was
\* opened and read.
C11_Witness ==
    /\ Len(opened) = 2 /\ Len(readers) = 1
    /\ OffsetOf(opened[1]).kind = "PosNotSet"
    /\ OffsetOf(opened[2]).kind = "NoData"
    /\ readers[1].last.st = "ok" /\ readers[1].last.exhausted

\* A call for an Unknown entry failed.
C11_WitnessUnknown ==
    /\ Len(opened) = 1
    /\ OffsetOf(opened[1]).kind = "Unknown"
    /\ opened[1].e = "NoDataPresent"

\* The block the file holds at the offset of a call or of a reader.
BlockAt(c) == given.blocks[c.entry]

\* C12: a read_data call at PosSet(position), for a position that holds a
\* block type byte and an id that read_int decodes, makes one seek call and
\* then: for type 1 it returns a reader and leaves the cursor at the first
\* chunk length, after the id; for type 3 it fails with BlobNotSupported;
\* for every other type it fails with InvalidData, having read the type byte
\* only; and a call that fails leaves the cursor at or before the first
\* chunk length.
C12_BlockType ==
    \A c \in 1..Len(opened) :
      LET b == BlockAt(opened[c])
      IN  b.type # -1 /\ (cfg.int_size > 0 \/ b.type \notin {1, 3}) =>
            /\ opened[c].seeks = 1
            /\ b.type = 1 =>
                 /\ opened[c].io.st = "ok"
                 /\ opened[c].after = b.first
            /\ b.type = 3 =>
                 /\ opened[c].io = [st |-> "err", e |-> "BlobNotSupported"]
                 /\ opened[c].st = "err" /\ opened[c].e = "BlobNotSupported"
            /\ b.type \notin {1, 3} =>
                 /\ opened[c].io = [st |-> "err", e |-> "InvalidData"]
                 /\ opened[c].st = "err" /\ opened[c].e = "InvalidData"
                 /\ opened[c].after = b.at + 1
            /\ opened[c].io.st # "ok" =>
                 /\ opened[c].after > b.at
                 /\ opened[c].after <= b.first

\* A reader was opened at a data block, and a call at a blob block failed.
C12_Witness ==
    /\ Len(opened) = 2 /\ Len(readers) = 1
    /\ BlockAt(opened[1]).type = 1 /\ opened[1].st = "ok"
    /\ BlockAt(opened[2]).type = 3 /\ opened[2].e = "BlobNotSupported"
    /\ cfg.int_size = 4

\* A call at a block of type 255 failed.
C12_WitnessInvalid ==
    /\ Len(opened) = 1
    /\ BlockAt(opened[1]).type = 255 /\ opened[1].e = "InvalidData"

\* The archive's compression method is LZ4.
IsLz4 == hdr.compression_method.method = "LZ4"

\* C13 as claimed: for an LZ4 archive every read_data call fails with
\* CompressionMethodNotSupported, whatever the offset of the entry and the
\* bytes at that offset.
C13_Lz4Always ==
    IsLz4 =>
      \A c \in 1..Len(opened) :
        opened[c].st = "err" /\ opened[c].e = "CompressionMethodNotSupported"

\* C13 as coded: for an LZ4 archive every read_data call fails and no reader
\* is handed out; the call fails with CompressionMethodNotSupported exactly
\* when ReadConfig::read_data has made a reader, which it does for NoData and
\* for PosSet at a block of type 1 whose id read_int decodes, and otherwise
\* with the error of ReadConfig::read_data.
C13_Lz4AfterOpen ==
    IsLz4 =>
      /\ readers = <<>>
      /\ \A c \in 1..Len(opened) :
           /\ opened[c].st = "err"
           /\ opened[c].io.st = "ok" <=>
                opened[c].e = "CompressionMethodNotSupported"
           /\ opened[c].io.st # "ok" => opened[c].e = opened[c].io.e
           /\ opened[c].io.st = "ok" <=>
                \/ OffsetOf(opened[c]).kind = "NoData"
                \/ BlockAt(opened[c]).type = 1 /\ cfg.int_size > 0

\* For an LZ4 archive a call at a data block failed with
\* CompressionMethodNotSupported and a call for a PosNotSet entry with
\* NoDataPresent.
C13_Witness ==
    /\ IsLz4 /\ Len(opened) = 2
    /\ BlockAt(opened[1]).type = 1
    /\ opened[1].e = "CompressionMethodNotSupported"
    /\ OffsetOf(opened[2]).kind = "PosNotSet"
    /\ opened[2].e = "NoDataPresent"

(***************************************************************************)
(* Claims about readers in use together                                    *)
(***************************************************************************)
\* C17: with every read_data call made on a file handle of its own, whatever
\* the order of the reads of the readers, each reader returns the first bytes
\* of the payload of its own block and no read fails; a read returns 0 bytes
\* only at the end of the block; and a reader at the end of its block has
\* returned the whole payload of its block, as it does when it is the only
\* reader, and has left its cursor at the end of its block.
C17_OwnHandles ==
    \A k \in 1..Len(readers) :
      LET b == BlockAt(readers[k])
      IN  /\ IsPrefix(readers[k].out, b.payload)
          /\ readers[k].last.st \in {"none", "ok"}
          /\ readers[k].last.st = "ok" /\ readers[k].last.n = 0 =>
               readers[k].rd.eof
          /\ readers[k].rd.eof =>
               /\ readers[k].out = b.payload
               /\ b.type = 1 => cursors[readers[k].handle] = b.end

\* Two readers of two blocks, each on its own handle: the second was read to
\* its end while the first was in the middle of its block.
C17_Witness ==
    /\ Len(readers) = 2
    /\ readers[1].entry # readers[2].entry
    /\ BlockAt(readers[1]).type = 1 /\ BlockAt(readers[2]).type = 1
    /\ Len(readers[1].out) = 2 /\ ~readers[1].rd.eof
    /\ readers[2].rd.eof /\ readers[2].out = BlockAt(readers[2]).payload

\* Both readers were read to the end of their blocks.
C17_WitnessBoth ==
    /\ Len(readers) = 2
    /\ BlockAt(readers[1]).type = 1 /\ BlockAt(readers[2]).type = 1
    /\ readers[1].rd.eof /\ readers[2].rd.eof

\* The step is a read_data call on the handle h.
OpensOn(h) ==
    /\ Len(opened') = Len(opened) + 1
    /\ opened'[Len(opened')].handle = h

\* C18: with every read_data call made on a file handle of its own, a call
\* at PosSet makes exactly one seek call and a handle is never sought again;
\* no step but that call moves the cursor of a handle backward; a reader at
\* the end of its block stays there, every read of it from then on returns
\* 0 bytes and takes no byte from the file; and the cursor of a reader of a
\* data block never passes the chunk length 0 that ends the block.
C18_ForwardOnly ==
    /\ [](/\ \A c \in 1..Len(opened) :
               /\ opened[c].seeks = IF OffsetOf(opened[c]).kind = "PosSet"
                                     THEN 1 ELSE 0
               /\ seeks[opened[c].handle] = opened[c].seeks
          /\ \A k \in 1..Len(readers) :
               /\ readers[k].last.exhausted =>
                    /\ readers[k].rd.eof
                    /\ readers[k].last.st = "ok"
                    /\ readers[k].last.n = 0
                    /\ readers[k].took = 0
               /\ BlockAt(readers[k]).type = 1 =>
                    /\ cursors[readers[k].handle] >= BlockAt(readers[k]).first
                    /\ cursors[readers[k].handle] <= BlockAt(readers[k]).end)
    /\ [][/\ \A h \in Handles :
               ~OpensOn(h) =>
                 /\ cursors'[h] >= cursors[h]
                 /\ seeks'[h] = seeks[h]
          /\ \A k \in 1..Len(readers) :
               readers[k].rd.eof =>
                 /\ readers'[k].rd.eof
                 /\ readers'[k].out = readers[k].out
                 /\ cursors'[readers[k].handle] = cursors[readers[k].handle]
         ]_vars

\* A reader of a data block was read to the end of its block and read once
\* more.
C18_Witness ==
    /\ Len(readers) = 1
    /\ BlockAt(readers[1]).type = 1
    /\ readers[1].rd.eof /\ readers[1].last.exhausted
    /\ seeks[readers[1].handle] = 1
    /\ cursors[readers[1].handle] < Len(data)

\* C19: a reader holds no position of its own: every read of a reader takes
\* its bytes from the file at the cursor its handle has at that moment,
\* wherever a read_data call on that handle or another reader of that handle
\* has left it, and moves that cursor by the bytes it takes (the bytes it
\* returns and, at the start of a chunk, the int_size + 1 bytes of a length).
C19_SharedCursor ==
    [][\A k \in 1..Len(readers) :
         readers'[k] # readers[k] =>
           LET h == readers[k].handle
               n == Len(readers'[k].out) - Len(readers[k].out)
           IN  /\ readers'[k].took = cursors'[h] - cursors[h]
               /\ readers'[k].took \in {0, n, n + readers[k].rd.int_size + 1}
                    \cup 0..readers[k].rd.int_size
               /\ readers'[k].out =
                    readers[k].out \o SubSeq(data, cursors'[h] - n + 1, cursors'[h])
      ]_vars

\* Reader A had returned a byte of its block when a second read_data call on
\* its handle moved the cursor to another block; A's next read returned a
\* byte that is not of A's payload.
C19_Witness ==
    /\ Len(opened) = 2 /\ Len(readers) = 2
    /\ readers[1].entry # readers[2].entry
    /\ BlockAt(readers[1]).type = 1 /\ BlockAt(readers[2]).type = 1
    /\ Len(readers[1].out) = 2
    /\ readers[1].out[1] = BlockAt(readers[1]).payload[1]
    /\ ~IsPrefix(readers[1].out, BlockAt(readers[1]).payload)
    /\ readers[2].out = <<>>

(***************************************************************************)
(* Claims about the errors of TocEntry::parse                              *)
(***************************************************************************)
\* The messages of the ArchiveError::InvalidData values TocEntry::parse makes.
EntryMessages ==
    {"negative TOC id", "invalid section type", "mysterious value must be false",
     "invalid dependency id"}

\* The ArchiveError TocEntry::parse returns for the message e: InvalidData
\* for its own checks, IOError (by `?`) for every io::Error of a primitive.
\* Neither variant has an id; InvalidEntryData is made nowhere.
ArchiveError(e) ==
    [variant |-> IF e \in EntryMessages THEN "InvalidData" ELSE "IOError",
     msg |-> e, has_id |-> FALSE, id |-> Zero64]

\* TocEntry::parse has returned an error at a field after the id.
FailedAfterId ==
    /\ pc = "done" /\ outcome.st = "err"
    /\ trace # <<>>
    /\ trace[Len(trace)].field # "id"

\* C21: every error of TocEntry::parse raised after the id of the entry was
\* read carries that id.
C21_ErrorsCarryId ==
    FailedAfterId =>
      /\ ArchiveError(outcome.e).has_id
      /\ ArchiveError(outcome.e).id = entry.id

\* C21 as coded: an error after the id is an InvalidData whose message names
\* the check that failed (section, reserved boolean, dependency id), or the
\* IOError of the primitive that failed, which names no field; none has an id.
C21_ErrorsAsCoded ==
    FailedAfterId =>
      LET field == trace[Len(trace)].field
          err == ArchiveError(outcome.e)
      IN  /\ ~err.has_id
          /\ err.variant = "InvalidData" =>
               \/ field = "section" /\ err.msg = "invalid section type"
               \/ field = "reserved" /\ err.msg = "mysterious value must be false"
               \/ field = "dependencies" /\ err.msg = "invalid dependency id"
          /\ field \notin {"section", "reserved", "dependencies"} =>
               err.variant = "IOError"

(***************************************************************************)
(* Claims about the ids of the entries                                     *)
(***************************************************************************)
\* C22: in every Archive a parse returns the ids of the entries are
\* non-negative and no two entries have the same id.
C22_UniqueIds ==
    Archive.some =>
      /\ \A i \in 1..Len(Archive.toc_entries) : ~IsNeg64(Archive.toc_entries[i].id)
      /\ \A i, j \in 1..Len(Archive.toc_entries) :
           i # j => Archive.toc_entries[i].id # Archive.toc_entries[j].id

\* C22 as coded: the ids of the entries of a returned Archive are
\* non-negative.
C22_IdsAsCoded ==
    Archive.some =>
      \A i \in 1..Len(Archive.toc_entries) : ~IsNeg64(Archive.toc_entries[i].id)

(***************************************************************************)
(* The Archive while its data is read                                      *)
(***************************************************************************)
RECURSIVE Without(_, _)
\* The sequence q without its k-th element.
Without(q, k) ==
    IF q = <<>> THEN <<>>
    ELSE IF k = 1 THEN Tail(q)
    ELSE <<Head(q)>> \o Without(Tail(q), k - 1)

\* The caller drops the k-th reader: its duplicate of the file handle is
\* closed, which leaves the handle and its cursor as they are.
DropReader(k) ==
    /\ pc = "use"
    /\ k \in 1..Len(readers)
    /\ readers' = Without(readers, k)
    /\ UNCHANGED <<overflow_checks, data, pos, cfg, pc, given, hdr, found,
                   cursors, seeks, opened>>
    /\ UNCHANGED <<codecVars, tocVars, dataVars>>

\* Any reader is dropped, at any point.
DropSome == \E k \in 1..Len(readers) : DropReader(k)

\* The caller searches the table data entries for a tag.
FindData == \E tag \in FindTags : FindTocEntry("Data", <<84, 68>>, tag)

NextFrame == OpenOwn \/ ReadSome \/ DropSome \/ FindData

\* The build with overflow checks; no integer of these files overflows in
\* either build.
InitFrame == InitUse /\ overflow_checks

\* The caller searches the entries, opens data, reads and drops readers in
\* any order.
SpecFrame == InitFrame /\ [][NextFrame]_vars

\* The fields of the Archive the caller holds: those of the header, the
\* entries and the io_config.
ArchiveFields == <<hdr, entries, cfg>>

\* C23: no find_toc_entry call, read_data call, read of a reader or drop of
\* a reader changes a field of the Archive, and every reader made for a data
\* block has the int_size of the Archive's io_config.
C23_ArchiveFrame ==
    /\ [][ArchiveFields' = ArchiveFields]_vars
    /\ [](\A k \in 1..Len(readers) :
            OffsetOf(readers[k]).kind = "PosSet" =>
              readers[k].rd.int_size = cfg.int_size)

\* An entry was found, a reader of a data block of an int_size of 4 was read
\* and a second reader was opened and dropped, after a call that failed.
C23_Witness ==
    /\ found.called /\ found.index # 0
    /\ Len(opened) = 2 /\ Len(readers) = 1
    /\ opened[1].st = "ok" /\ opened[2].st = "err"
    /\ cfg.int_size = 4
    /\ readers[1].rd.int_size = 4
    /\ readers[1].out # <<>>

\* Both readers were opened and both were dropped.
C23_WitnessDropped ==
    /\ Len(opened) = 2 /\ readers = <<>>
    /\ opened[1].st = "ok" /\ opened[2].st = "ok"

(***************************************************************************)
(* Claims about the range of the creation date                             *)
(***************************************************************************)
\* The stored integers denote a date of the calendar and a time of day.
StoredDateValid ==
    LET a == given.archive
    IN  /\ StoredDateSmall
        /\ a.created_year.v + 1900 \in -262143..262142
        /\ a.created_mon.v \in 0..11
        /\ a.created_mday.v >= 1
        /\ a.created_mday.v <= DaysIn(a.created_year.v + 1900, a.created_mon.v + 1)
        /\ a.created_hour.v \in 0..23
        /\ a.created_min.v \in 0..59
        /\ a.created_sec.v \in 0..59

\* The parse has gone past the date.
DateMade == hdr.create_date.valid

\* C24: the parse makes a date only from stored integers that denote a valid
\* date and time, of whatever int_size and magnitude, and never aborts over
\* them; the date it makes has the stored year plus 1900 and the stored day,
\* hour, minute and second.
C24_DateChecked ==
    LET a == given.archive
    IN  /\ DateMade =>
             /\ StoredDateValid
             /\ hdr.create_date.year = a.created_year.v + 1900
             /\ hdr.create_date.day = a.created_mday.v
             /\ hdr.create_date.hour = a.created_hour.v
             /\ hdr.create_date.min = a.created_min.v
             /\ hdr.create_date.sec = a.created_sec.v
        /\ pc = "done" /\ HasRead("_created_isdst") /\ ~StoredDateValid
           /\ ~HasRead("database_name") => outcome.st = "err"

\* C24 as coded: it holds of stored integers of less than 32 bits.
C24_DateCheckedSmall ==
    LET a == given.archive
    IN  StoredDateSmall =>
          /\ DateMade =>
               /\ StoredDateValid
               /\ hdr.create_date.year = a.created_year.v + 1900
               /\ hdr.create_date.day = a.created_mday.v
               /\ hdr.create_date.hour = a.created_hour.v
               /\ hdr.create_date.min = a.created_min.v
               /\ hdr.create_date.sec = a.created_sec.v
          /\ pc = "done" /\ HasRead("_created_isdst") /\ ~StoredDateValid
             /\ ~HasRead("database_name") => outcome.st = "err"

\* A date was made from a stored day of 2^32 + 29.
C24_NarrowedDay ==
    /\ DateMade
    /\ given.archive.created_mday = Wide(29)
    /\ hdr.create_date.day = 29

(***************************************************************************)
(* DataReader on malformed blocks                                          *)
(***************************************************************************)
\* A well-formed block of two chunks.
WellBlock(w) ==
    BlockHeader(w) \o EncInt(2, w) \o <<65, 66>> \o EncInt(1, w) \o <<67>>
    \o EncInt(0, w)

\* The number of bytes before the payload of the first and of the second
\* chunk of WellBlock.
FirstPayloadAt(w) == Len(BlockHeader(w)) + w + 1
SecondPayloadAt(w) == FirstPayloadAt(w) + 2 + w + 1

\* The payload bytes of WellBlock that its first `keep` bytes hold.
PayloadKept(w, keep) ==
    SubSeq(<<65, 66>>, 1,
           IF keep <= FirstPayloadAt(w) THEN 0
           ELSE IF keep - FirstPayloadAt(w) >= 2 THEN 2
           ELSE keep - FirstPayloadAt(w))
    \o (IF keep > SecondPayloadAt(w) THEN <<67>> ELSE <<>>)

\* The first `keep` bytes of WellBlock end inside a chunk: after its length
\* and before the last byte of its payload.
EndsInChunk(w, keep) ==
    \/ keep >= FirstPayloadAt(w) /\ keep < FirstPayloadAt(w) + 2
    \/ keep = SecondPayloadAt(w)

\* A block whose second chunk length is -v, and what follows it.
NegativeBlock(w, v) ==
    BlockHeader(w) \o EncInt(2, w) \o <<65, 66>> \o EncInt(-v, w) \o <<67>>
    \o EncInt(0, w) \o <<9, 9>>

\* The reader of a malformed block: a file that ends before the chunk of
\* length 0, or a negative chunk length.
InitBody ==
    /\ overflow_checks \in BOOLEAN
    /\ \E w \in {1, 4} :
         /\ \/ \E keep \in Len(BlockHeader(w))..(Len(WellBlock(w)) - 1) :
                 /\ data = SubSeq(WellBlock(w), 1, keep)
                 /\ given = [kind |-> "cut", payload |-> PayloadKept(w, keep),
                             in_chunk |-> EndsInChunk(w, keep)]
            \/ \E v \in {1, 2} :
                 /\ data = NegativeBlock(w, v)
                 /\ given = [kind |-> "negative", payload |-> <<65, 66>>,
                             in_chunk |-> FALSE]
         /\ pos = Len(BlockHeader(w))
         /\ cfg = [int_size |-> w, offset_size |-> 8]
         /\ reader = DataReader_new(w)
    /\ out = <<>>
    /\ last = ReadResult("none", 0, "", FALSE)
    /\ cursors = <<>>
    /\ seeks = <<>>
    /\ readers = <<>>
    /\ opened = <<>>
    /\ found = NotFound
    /\ pc = "reading"
    /\ hdr = <<>>
    /\ op = "none"
    /\ ret = NoRet
    /\ num_entries = Zero64
    /\ entries = <<>>
    /\ entry = <<>>
    /\ trace = <<>>
    /\ outcome = NoOutcome

SpecBody == InitBody /\ [][NextData]_vars

\* Every read so far has returned bytes of the payload or an error.
NeverEndsNorStrays ==
    /\ last.st = "ok" => last.n > 0
    /\ ~reader.eof
    /\ IsPrefix(out, given.payload)

\* C25: on a block with a negative chunk length, or whose file ends inside a
\* chunk or before the chunk of length 0, no read returns 0 bytes without an
\* error and no read returns a byte that is not of the payload of a chunk.
C25_MalformedIsError == NeverEndsNorStrays

\* C25 as coded: on a file that ends inside a chunk length or right before
\* one, the reads return bytes of the payload until one returns an error;
\* a read after that error is not covered.
C25_CutLengthIsError ==
    [][/\ given.kind = "cut" /\ ~given.in_chunk
       /\ last.st # "err" /\ ~(last.st = "ok" /\ last.n = 0)
       => /\ last'.st = "ok" => last'.n > 0
          /\ ~reader'.eof
          /\ IsPrefix(out', given.payload)]_vars

\* The file ended inside a chunk and a read returned 0 bytes without error.
C25_EndInsideChunk ==
    /\ given.kind = "cut" /\ given.in_chunk
    /\ last.st = "ok" /\ last.n = 0

\* After a negative chunk length a read returned bytes that follow it.
C25_NegativeLength ==
    /\ given.kind = "negative"
    /\ last.st = "ok" /\ ~IsPrefix(out, given.payload)

(***************************************************************************)
(* Claims about the range of read_int                                      *)
(***************************************************************************)
\* C26: for every int_size from 1 on and every sign and magnitude bytes
\* read_int returns an error or exactly the signed value of the bytes: it
\* returns no value for a magnitude an i64 cannot hold, no value other than
\* the encoded one, and it does not abort.
C26_ReadIntExact ==
    (pc = "done" /\ op = "read_int" /\ cfg.int_size >= 1) =>
        LET mag == HeadMagnitude(cfg.int_size)
            m == MagWord(mag)
        IN  /\ ret.st \in {"ok", "err"}
            /\ ret.st = "ok" =>
                 /\ FitsU64(mag)
                 /\ data[1] = 0 => ~IsNeg64(m) /\ ret.val = m
                 /\ data[1] # 0 =>
                      /\ WrappingAdd(ret.val, m) = Zero64
                      /\ ret.val = Zero64 \/ IsNeg64(ret.val)

\* read_int with an int_size of 8 returned a negative value for a sign byte
\* of 0 and a magnitude of 2^63 or more.
C26_Wrapped ==
    /\ pc = "done" /\ op = "read_int" /\ cfg.int_size = 8
    /\ ret.st = "ok" /\ data[1] = 0 /\ IsNeg64(ret.val)

\* read_int with an int_size of 9 aborted.
C26_Aborted ==
    /\ pc = "done" /\ op = "read_int" /\ cfg.int_size = 9
    /\ ret.st = "panic"

(***************************************************************************)
(* Claims about the TOC count and the widths                               *)
(***************************************************************************)
\* C27: when the TOC count is read as a negative integer, read_toc and with
\* it the parse ends with an error: not with an entry list and not by
\* aborting.
C27_NegativeCount ==
    pc = "done" /\ IsNeg64(num_entries) => outcome.st = "err"

\* C27 as coded: a negative count never gives an entry list.
C27_NegativeCountNoList ==
    pc = "done" /\ IsNeg64(num_entries) => outcome.st # "ok" /\ ~Archive.some

\* The parse aborted over a count of -1.
C27_Aborted ==
    /\ pc = "done" /\ num_entries = MinusOne64
    /\ outcome.st = "panic" /\ outcome.e = "capacity overflow"

\* C28: every Archive that parse returns has an int_size of at least 1 and
\* an offset_size of at least 1, also when the TOC is empty.
C28_WidthsNonzero ==
    Archive.some => /\ Archive.io_config.int_size >= 1
                    /\ Archive.io_config.offset_size >= 1

\* C28 as coded: every Archive that parse returns has an int_size of at
\* least 1, and an offset_size of at least 1 whenever its TOC has an entry:
\* a zero width surfaces on the first read that uses it, and the offset
\* width is used by the TOC entries only.
C28_WidthsOnUse ==
    Archive.some => /\ Archive.io_config.int_size >= 1
                    /\ Archive.toc_entries # <<>> =>
                           Archive.io_config.offset_size >= 1

\* An Archive with an offset width of zero and an empty TOC is returned.
C28_ZeroOffsetSize ==
    /\ pc = "done" /\ Archive.some
    /\ Archive.io_config.offset_size = 0
    /\ Archive.toc_entries = <<>>

\* A header with an integer width of zero and an empty TOC is rejected.
C28_ZeroIntSize ==
    /\ pc = "done" /\ cfg.int_size = 0 /\ num_entries = Zero64
    /\ outcome.st = "err" /\ outcome.e = "integer size unknown"

====
